---- MODULE Spec2Model ----
(***************************************************************************)
(* A model of BashSpark: the session derivations of shell_session, the     *)
(* run-time depth guard of the eval command, the word gluing of a command  *)
(* expression, the tokenizer and the recursive-descent parser with its     *)
(* operator fix-up, and the evaluation of the operator nodes.              *)
(***************************************************************************)
EXTENDS Integers, Sequences, FiniteSets, TLC

VARIABLES
    stack,      \* the activations in progress, innermost last (sessions and eval calls)
    event,      \* what the last step did: an activation entered or ended
    src,        \* the input handed to the tokenizer, the parser or expand
    out         \* what the function applied to src produced

sessVars == <<stack, event>>

pureVars == <<src, out>>

vars == <<stack, event, src, out>>

(***************************************************************************)
(* Bounds of the model.                                                    *)
(***************************************************************************)
MaxNesting == 1       \* subshells, function calls, pipe sides and brace groups open at once
MaxActiveEval == 17   \* eval invocations in progress the model follows
MaxChildren == 3      \* children of a command expression handed to expand
MaxValueLen == 3      \* characters of the value of a variable that is expanded

(***************************************************************************)
(* Program constants.                                                      *)
(***************************************************************************)
SHELL_MAX_DEPTH == 16

Names == {"x"}
Values == {"a", "b"}
FuncNames == {"f"}
Bodies == {"body1", "body2"}
ArgLists == {<< >>, <<"a">>}
NoVal == "<unset>"

EmptyMap == [n \in Names |-> NoVal]
EmptyVtable == [n \in FuncNames |-> NoVal]

(***************************************************************************)
(* shell_session.  A frame of the stack is one activation.  A frame whose  *)
(* kind derives a session owns a session object; the four tables of a      *)
(* session are shared_ptr's, so a frame names, per table, the frame whose  *)
(* copy it points to (envRef, varRef, vtRef, argRef).  A brace group and   *)
(* an eval invocation run on the session they were called with (sessRef).  *)
(* snap is a history field: the parent's tables when the frame was entered.*)
(***************************************************************************)
RootFrame ==
    [kind |-> "root", sessRef |-> 1,
     envRef |-> 1, varRef |-> 1, vtRef |-> 1, argRef |-> 1,
     env |-> EmptyMap, var |-> EmptyMap, vt |-> EmptyVtable, arg |-> <<"sh">>,
     depth |-> 0,
     snap |-> << >>]

Sess(s, i) == s[s[i].sessRef]
EnvOf(s, i) == s[Sess(s, i).envRef].env
VarOf(s, i) == s[Sess(s, i).varRef].var
VtOf(s, i) == s[Sess(s, i).vtRef].vt
ArgOf(s, i) == s[Sess(s, i).argRef].arg
DepthOf(s, i) == Sess(s, i).depth

Tables(s, i) == [env |-> EnvOf(s, i), var |-> VarOf(s, i), vt |-> VtOf(s, i), arg |-> ArgOf(s, i)]

Top == Len(stack)

DerivedKinds == {"subshell", "fcall", "pipeL", "pipeR"}

NumKind(s, kinds) == Cardinality({i \in 1..Len(s) : s[i].kind \in kinds})

\* shell_session::make_subsession: env, var and vtable are copied, arg is shared.
make_subsession_shared_env(s, i) ==
    [kind |-> "subshell", sessRef |-> Len(s) + 1,
     envRef |-> Sess(s, i).envRef, varRef |-> Len(s) + 1, vtRef |-> Len(s) + 1,
     argRef |-> Sess(s, i).argRef,
     env |-> EnvOf(s, i), var |-> VarOf(s, i), vt |-> VtOf(s, i), arg |-> << >>,
     depth |-> 0,
     snap |-> Tables(s, i)]

make_subsession(s, i) ==
    [kind |-> "subshell", sessRef |-> Len(s) + 1,
     envRef |-> Len(s) + 1, varRef |-> Len(s) + 1, vtRef |-> Len(s) + 1,
     argRef |-> Sess(s, i).argRef,
     env |-> EnvOf(s, i), var |-> VarOf(s, i), vt |-> VtOf(s, i), arg |-> << >>,
     depth |-> 0,
     snap |-> Tables(s, i)]

\* shell_session::make_function_call: env and vtable shared, var fresh, arg new.
make_function_call_shared_var(s, i, oArg) ==
    [kind |-> "fcall", sessRef |-> Len(s) + 1,
     envRef |-> Sess(s, i).envRef, varRef |-> Sess(s, i).varRef, vtRef |-> Sess(s, i).vtRef,
     argRef |-> Len(s) + 1,
     env |-> EmptyMap, var |-> EmptyMap, vt |-> EmptyVtable, arg |-> oArg,
     depth |-> 0,
     snap |-> Tables(s, i)]

make_function_call(s, i, oArg) ==
    [kind |-> "fcall", sessRef |-> Len(s) + 1,
     envRef |-> Sess(s, i).envRef, varRef |-> Len(s) + 1, vtRef |-> Sess(s, i).vtRef,
     argRef |-> Len(s) + 1,
     env |-> EmptyMap, var |-> EmptyMap, vt |-> EmptyVtable, arg |-> oArg,
     depth |-> 0,
     snap |-> Tables(s, i)]

\* shell_session::make_pipe_left / make_pipe_right: the four tables are shared;
\* only a stream is replaced.
make_pipe_end_copied_var(s, i, sKind) ==
    [kind |-> sKind, sessRef |-> Len(s) + 1,
     envRef |-> Sess(s, i).envRef, varRef |-> Len(s) + 1, vtRef |-> Sess(s, i).vtRef,
     argRef |-> Sess(s, i).argRef,
     env |-> EmptyMap, var |-> VarOf(s, i), vt |-> EmptyVtable, arg |-> << >>,
     depth |-> 0,
     snap |-> Tables(s, i)]

make_pipe_end(s, i, sKind) ==
    [kind |-> sKind, sessRef |-> Len(s) + 1,
     envRef |-> Sess(s, i).envRef, varRef |-> Sess(s, i).varRef, vtRef |-> Sess(s, i).vtRef,
     argRef |-> Sess(s, i).argRef,
     env |-> EmptyMap, var |-> EmptyMap, vt |-> EmptyVtable, arg |-> << >>,
     depth |-> 0,
     snap |-> Tables(s, i)]

make_pipe_left(s, i) == make_pipe_end(s, i, "pipeL")

make_pipe_right(s, i) == make_pipe_end(s, i, "pipeR")

\* shell_parser::parse_brackets builds a shell_node_command_block, whose evaluate
\* hands its own session to the children: no session is derived.
SameSessionFrame(s, i, sKind) ==
    [kind |-> sKind, sessRef |-> s[i].sessRef,
     envRef |-> Sess(s, i).envRef, varRef |-> Sess(s, i).varRef, vtRef |-> Sess(s, i).vtRef,
     argRef |-> Sess(s, i).argRef,
     env |-> EmptyMap, var |-> EmptyMap, vt |-> EmptyVtable, arg |-> << >>,
     depth |-> 0,
     snap |-> Tables(s, i)]

brace_group(s, i) == SameSessionFrame(s, i, "brace")

\* shell_env::set_env, shell_var::set_var, shell_vtable::set_func on the session of frame i.
set_env(s, i, sVariable, sValue) ==
    [s EXCEPT ![Sess(s, i).envRef].env[sVariable] = sValue]

set_var(s, i, sVariable, sValue) ==
    [s EXCEPT ![Sess(s, i).varRef].var[sVariable] = sValue]

set_func(s, i, sName, pFunction) ==
    [s EXCEPT ![Sess(s, i).vtRef].vt[sName] = pFunction]

get_func(s, i, sName) == VtOf(s, i)[sName]

NoEvent == [kind |-> "none"]

Pop(s) == SubSeq(s, 1, Len(s) - 1)

\* An activation has just been entered: the tables of the parent and its own.
EnterOf(s) ==
    [kind |-> "enter", what |-> s[Len(s)].kind,
     parent |-> Tables(s, Len(s) - 1),
     own |-> Tables(s, Len(s))]

\* An activation has just ended: the parent's tables when it began and now, and
\* its own tables when it ended.
RetOf(s) ==
    [kind |-> "return", what |-> s[Len(s)].kind,
     before |-> s[Len(s)].snap,
     after |-> Tables(Pop(s), Len(s) - 1),
     final |-> Tables(s, Len(s))]

\* The left side of a pipe has just ended and the right side has been entered:
\* what the left side left, and the tables the right side starts with.
SwitchOf(s, t) ==
    [kind |-> "switch", what |-> s[Len(s)].kind,
     before |-> s[Len(s)].snap,
     after |-> Tables(Pop(s), Len(s) - 1),
     final |-> Tables(s, Len(s)),
     own |-> Tables(t, Len(t))]

(***************************************************************************)
(* Actions of the session machine: the commands and constructs a program   *)
(* runs in the innermost activation.                                       *)
(***************************************************************************)
NoSrc == << >>

NoOut == [kind |-> "none"]

InitSession ==
    /\ stack = <<RootFrame>>
    /\ event = NoEvent
    /\ src = NoSrc
    /\ out = NoOut

\* command_setenv::run with a valid name and two arguments.
Setenv ==
    \E n \in Names, v \in Values :
        /\ stack' = set_env(stack, Top, n, v)
        /\ event' = NoEvent
    /\ UNCHANGED pureVars

\* command_setvar::run with a valid name and two arguments.
Setvar ==
    \E n \in Names, v \in Values :
        /\ stack' = set_var(stack, Top, n, v)
        /\ event' = NoEvent
    /\ UNCHANGED pureVars

\* shell_node_function::evaluate with a valid name.
FunctionDef ==
    \E n \in FuncNames, b \in Bodies :
        /\ stack' = set_func(stack, Top, n, b)
        /\ event' = NoEvent
    /\ UNCHANGED pureVars

NestingKinds == {"subshell", "fcall", "pipeL", "pipeR", "brace"}

CanDerive == NumKind(stack, NestingKinds) < MaxNesting

\* shell_node_command_block_subshell::evaluate, shell_node_dollar_command::expand,
\* shell_node_str_back::expand: the child runs in make_subsession of the session.
SubshellEnter ==
    /\ CanDerive
    /\ stack' = Append(stack, make_subsession(stack, Top))
    /\ event' = EnterOf(stack')
    /\ UNCHANGED pureVars

\* command_fcall::run: the function is looked up, the body runs in make_function_call.
FcallEnter ==
    /\ CanDerive
    /\ \E n \in FuncNames, a \in ArgLists :
        /\ get_func(stack, Top, n) # NoVal
        /\ stack' = Append(stack, make_function_call(stack, Top, <<n>> \o a))
        /\ event' = [kind |-> "enter", what |-> "fcall",
                     parent |-> Tables(stack, Top),
                     own |-> Tables(stack', Top + 1),
                     vArgs |-> <<n>> \o a]
    /\ UNCHANGED pureVars

\* shell_node_pipe::evaluate, first half: the left side runs in make_pipe_left.
PipeEnter ==
    /\ CanDerive
    /\ stack' = Append(stack, make_pipe_left(stack, Top))
    /\ event' = EnterOf(stack')
    /\ UNCHANGED pureVars

\* shell_node_pipe::evaluate, second half: the left side is over, the right side
\* runs in make_pipe_right of the same parent session.
PipeSwitch ==
    /\ stack[Top].kind = "pipeL"
    /\ stack' = Append(Pop(stack), make_pipe_right(Pop(stack), Top - 1))
    /\ event' = SwitchOf(stack, stack')
    /\ UNCHANGED pureVars

\* A brace group { ... } starts.
BraceEnter ==
    /\ CanDerive
    /\ stack' = Append(stack, brace_group(stack, Top))
    /\ event' = EnterOf(stack')
    /\ UNCHANGED pureVars

\* The innermost subshell, function body, right pipe side or brace group is over.
Return ==
    /\ stack[Top].kind \in {"subshell", "fcall", "pipeR", "brace"}
    /\ event' = RetOf(stack)
    /\ UNCHANGED pureVars
    /\ stack' = Pop(stack)

SessionNext ==
    \/ Setenv
    \/ Setvar
    \/ FunctionDef
    \/ SubshellEnter
    \/ FcallEnter
    \/ PipeEnter
    \/ PipeSwitch
    \/ BraceEnter
    \/ Return

SpecSession == InitSession /\ [][SessionNext]_vars

Entered(sKind) == event.kind = "enter" /\ event.what = sKind

Returned(sKind) == event.kind = "return" /\ event.what = sKind

Parent(i) == i - 1

\* C7: the parent session's environment, local variables and function table are
\* the same after a subshell returns as before it started (and at every moment in
\* between); the subshell starts from a copy of the three and reads the positional
\* arguments of the parent.
C7_SubshellLeavesParent ==
    /\ Returned("subshell") =>
            /\ event.after.env = event.before.env
            /\ event.after.var = event.before.var
            /\ event.after.vt = event.before.vt
    /\ Entered("subshell") =>
            /\ event.own.env = event.parent.env
            /\ event.own.var = event.parent.var
            /\ event.own.vt = event.parent.vt
            /\ event.own.arg = event.parent.arg
    /\ \A i \in 2..Len(stack) : stack[i].kind = "subshell" =>
            /\ EnvOf(stack, Parent(i)) = stack[i].snap.env
            /\ VarOf(stack, Parent(i)) = stack[i].snap.var
            /\ VtOf(stack, Parent(i)) = stack[i].snap.vt
            /\ ArgOf(stack, i) = ArgOf(stack, Parent(i))

\* A subshell that assigned an environment variable, a local variable and a
\* function has returned.
C7_Witness ==
    /\ Returned("subshell")
    /\ event.final.env # event.before.env
    /\ event.final.var # event.before.var
    /\ event.final.vt # event.before.vt

\* C8: a function body called through fcall starts with an empty table of local
\* variables and the arguments of the call as positional arguments; its environment
\* and function table are the caller's own at every moment; when it returns the
\* caller's local variables are as before the call, and the environment and the
\* function table of the caller are as the body left them.
C8_FunctionCallFrame ==
    /\ Entered("fcall") =>
            /\ event.own.var = EmptyMap
            /\ event.own.arg = event.vArgs
            /\ event.own.env = event.parent.env
            /\ event.own.vt = event.parent.vt
    /\ \A i \in 2..Len(stack) : stack[i].kind = "fcall" =>
            /\ EnvOf(stack, i) = EnvOf(stack, Parent(i))
            /\ VtOf(stack, i) = VtOf(stack, Parent(i))
            /\ VarOf(stack, Parent(i)) = stack[i].snap.var
    /\ Returned("fcall") =>
            /\ event.after.var = event.before.var
            /\ event.after.env = event.final.env
            /\ event.after.vt = event.final.vt

\* A function body that was called from a session with a local variable set, and
\* that set a local variable, an environment variable and a function, has returned.
C8_Witness ==
    /\ Returned("fcall")
    /\ event.before.var # EmptyMap
    /\ event.final.var # event.before.var
    /\ event.final.env # event.before.env
    /\ event.final.vt # event.before.vt

\* C9: a brace group and both sides of a pipe work on the tables of the session
\* they are in: what they assign to the environment, the local variables and the
\* function table is in the parent session when they finish, and what the left side
\* of a pipe assigned is what the right side starts with.
C9_NoIsolation ==
    /\ (Returned("brace") \/ Returned("pipeR")) =>
            /\ event.after.env = event.final.env
            /\ event.after.var = event.final.var
            /\ event.after.vt = event.final.vt
    /\ event.kind = "switch" =>
            /\ event.after.env = event.final.env
            /\ event.after.var = event.final.var
            /\ event.after.vt = event.final.vt
            /\ event.own.env = event.final.env
            /\ event.own.var = event.final.var
            /\ event.own.vt = event.final.vt
    /\ \A i \in 2..Len(stack) : stack[i].kind \in {"brace", "pipeL", "pipeR"} =>
            /\ EnvOf(stack, i) = EnvOf(stack, Parent(i))
            /\ VarOf(stack, i) = VarOf(stack, Parent(i))
            /\ VtOf(stack, i) = VtOf(stack, Parent(i))

\* The left side of a pipe that assigned to all three tables has handed over to the
\* right side.
C9_Witness ==
    /\ event.kind = "switch"
    /\ event.final.env # event.before.env
    /\ event.final.var # event.before.var
    /\ event.final.vt # event.before.vt

(***************************************************************************)
(* The eval command (command_eval::run) and the depth counter of the       *)
(* session it is called with.                                              *)
(***************************************************************************)
\* shell_session::increase_shell_depth on the session of frame i, when it succeeds.
increase_shell_depth_ok(s, i) == DepthOf(s, i) + 1 <= SHELL_MAX_DEPTH

increase_shell_depth(s, i) ==
    [s EXCEPT ![s[i].sessRef].depth = @ + 1]

\* shell_session::decrease_shell_depth on the session of frame i.
decrease_shell_depth(s, i) ==
    [s EXCEPT ![s[i].sessRef].depth = IF @ > 0 THEN @ - 1 ELSE @]

\* shell::run called by command_eval::run evaluates on the session it was given.
EvalFrame(s, i) == [SameSessionFrame(s, i, "eval") EXCEPT !.snap = << >>]

ActiveEvals == NumKind(stack, {"eval"})

\* command_eval::run, the depth could be increased: the text is handed to shell::run
\* on the same session.
EvalEnter ==
    /\ ActiveEvals < MaxActiveEval
    /\ increase_shell_depth_ok(stack, Top)
    /\ stack' = Append(increase_shell_depth(stack, Top), EvalFrame(stack, Top))
    /\ event' = [kind |-> "enter", what |-> "eval"]
    /\ UNCHANGED pureVars

\* command_eval::run, the depth could not be increased: the error is reported and
\* the command returns without calling shell::run.
EvalReject ==
    /\ ~increase_shell_depth_ok(stack, Top)
    /\ event' = [kind |-> "reject", what |-> "eval",
                 status |-> "SHELL_ERROR_MAX_DEPTH_REACHED", ranText |-> FALSE]
    /\ UNCHANGED <<stack, pureVars>>

\* command_eval::run, shell::run has returned: the depth is decreased.
EvalReturn ==
    /\ stack[Top].kind = "eval"
    /\ event' = [kind |-> "return", what |-> "eval"]
    /\ stack' = decrease_shell_depth(Pop(stack), Top - 1)
    /\ UNCHANGED pureVars

\* command_eval::run, shell::run has thrown the exception of the parser: the call
\* of decrease_shell_depth is skipped, shell_node_command::evaluate catches.
EvalThrow ==
    /\ stack[Top].kind = "eval"
    /\ event' = [kind |-> "throw", what |-> "eval"]
    /\ stack' = Pop(stack)
    /\ UNCHANGED pureVars

DepthNext ==
    \/ EvalEnter
    \/ EvalReject
    \/ EvalReturn
    \/ EvalThrow
    \/ FunctionDef
    \/ SubshellEnter
    \/ FcallEnter
    \/ PipeEnter
    \/ PipeSwitch
    \/ Return

SpecDepth == InitSession /\ [][DepthNext]_vars

\* C4: the number of eval invocations in progress at once, whether nested directly
\* or through a subshell, a function call or a pipe side, never exceeds
\* SHELL_MAX_DEPTH, and an invocation that is refused has not run its text.
C4_EvalDepthBounded ==
    /\ ActiveEvals <= SHELL_MAX_DEPTH
    /\ event.kind = "reject" => (event.status = "SHELL_ERROR_MAX_DEPTH_REACHED" /\ ~event.ranText)

(***************************************************************************)
(* shell_node_command_expression::expand.  A text is a sequence of         *)
(* characters.  A child of a command expression is the split marker        *)
(* (nullptr, pushed for a space), a word, a quoted string, or a variable   *)
(* whose value is split at blanks.                                         *)
(***************************************************************************)
RECURSIVE split_string_from(_, _, _)
\* split_string: the pieces of oString between blanks, the empty ones dropped;
\* sPending is the piece being read, i the position.
split_string_from(oString, i, sPending) ==
    IF i > Len(oString)
    THEN IF sPending # << >> THEN <<sPending>> ELSE << >>
    ELSE IF oString[i] \in {" ", "\n", "\t"}
         THEN (IF sPending # << >> THEN <<sPending>> ELSE << >>)
              \o split_string_from(oString, i + 1, << >>)
         ELSE split_string_from(oString, i + 1, Append(sPending, oString[i]))

split_string(oString) == split_string_from(oString, 1, << >>)

NullChild == [kind |-> "null"]

\* expand(vSubTokens, oSession, true) of a child: shell_node_word::expand,
\* shell_node_str::expand and shell_node_session_extractor::expand.
ChildExpand(pChild) ==
    CASE pChild.kind = "word" -> <<pChild.text>>
      [] pChild.kind = "str" -> <<pChild.text>>
      [] pChild.kind = "var" -> split_string(pChild.value)

RECURSIVE expand_from(_, _, _, _)
\* The loop of shell_node_command_expression::expand from child i on, with the
\* tokens pushed so far and the word buffer oWord, and the final flush.
expand_from(vChildren, i, vTokens, oWord) ==
    IF i > Len(vChildren)
    THEN IF oWord # << >> THEN Append(vTokens, oWord) ELSE vTokens
    ELSE IF vChildren[i] = NullChild
         THEN IF oWord # << >>
              THEN expand_from(vChildren, i + 1, Append(vTokens, oWord), << >>)
              ELSE expand_from(vChildren, i + 1, vTokens, oWord)
         ELSE LET vSubTokens == ChildExpand(vChildren[i])
                  n == Len(vSubTokens)
              IN  IF n = 0
                  THEN expand_from(vChildren, i + 1, vTokens, oWord)
                  ELSE expand_from(vChildren, i + 1,
                                   Append(vTokens, oWord \o vSubTokens[1])
                                       \o (IF n > 2 THEN SubSeq(vSubTokens, 2, n - 1) ELSE << >>),
                                   IF n > 1 THEN vSubTokens[n] ELSE << >>)

expand(vChildren) == expand_from(vChildren, 1, << >>, << >>)

ValueChars == {"x", " "}

RECURSIVE TextsUpTo(_, _)
TextsUpTo(chars, n) ==
    IF n = 0 THEN {<< >>}
    ELSE LET shorter == TextsUpTo(chars, n - 1)
         IN  shorter \cup {Append(t, c) : t \in shorter, c \in chars}

ChildNodes ==
    {[kind |-> "word", text |-> <<"a">>],
     [kind |-> "str", text |-> << >>],
     [kind |-> "str", text |-> <<"b", " ", "c">>],
     [kind |-> "var", value |-> <<"x", " ", "y", " ", "z">>]}
    \cup {[kind |-> "var", value |-> v] : v \in TextsUpTo(ValueChars, MaxValueLen)}

RECURSIVE ChildLists(_)
\* The lists of children shell_parser::parse_command_expression builds: not empty,
\* the first one no marker, never two markers in a row.
ChildLists(n) ==
    IF n = 1 THEN {<<c>> : c \in ChildNodes}
    ELSE LET shorter == ChildLists(n - 1)
         IN  shorter
             \cup {Append(l, c) : l \in shorter, c \in ChildNodes}
             \cup {Append(l, NullChild) : l \in {k \in shorter : k[Len(k)] # NullChild}}

InitExpand ==
    /\ stack = <<RootFrame>>
    /\ event = NoEvent
    /\ src \in {[kind |-> "expression", vChildren |-> l] : l \in ChildLists(MaxChildren)}
    /\ out = NoOut

\* shell_node_command::evaluate expands its command expression.
Expand ==
    /\ src.kind = "expression"
    /\ out = NoOut
    /\ out' = [kind |-> "tokens", vTokens |-> expand(src.vChildren)]
    /\ UNCHANGED <<sessVars, src>>

ExpandNext ==
    \/ Expand

SpecExpand == InitExpand /\ [][ExpandNext]_vars

RECURSIVE Glued(_)
\* The texts of a list, one after the other with nothing between them.
Glued(vTexts) ==
    IF vTexts = << >> THEN << >> ELSE vTexts[1] \o Glued(Tail(vTexts))

EachOneToken(vChildren) ==
    \A i \in 1..Len(vChildren) :
        vChildren[i] # NullChild /\ Len(ChildExpand(vChildren[i])) = 1

\* C10: when no child of the command expression is a split marker and every child
\* expands to exactly one token, the expression expands to the single token that
\* is the concatenation of these tokens.
C10_AdjacentGlued ==
    (out.kind = "tokens" /\ EachOneToken(src.vChildren)) =>
        out.vTokens = <<Glued([i \in 1..Len(src.vChildren) |->
                                          ChildExpand(src.vChildren[i])[1]])>>

\* C11: a child that expands to two or more tokens, between two adjacent children
\* of one token each, gives its first token glued behind the text of the child
\* before it, its middle tokens as they are, and its last token glued before
\* the text of the child after it: a${multi}b with multi = "x y z" is ax, y, zb.
C11_MultiTokenJoined ==
    (/\ out.kind = "tokens"
     /\ Len(src.vChildren) = 3
     /\ EachOneToken(<<src.vChildren[1], src.vChildren[3]>>)
     /\ src.vChildren[2] # NullChild
     /\ Len(ChildExpand(src.vChildren[2])) >= 2) =>
        LET sBefore == ChildExpand(src.vChildren[1])[1]
            sAfter == ChildExpand(src.vChildren[3])[1]
            vSubTokens == ChildExpand(src.vChildren[2])
            n == Len(vSubTokens)
        IN  out.vTokens = <<sBefore \o vSubTokens[1]>>
                              \o SubSeq(vSubTokens, 2, n - 1)
                              \o <<vSubTokens[n] \o sAfter>>

(***************************************************************************)
(* shell_tokenizer.  A source text is a sequence of atoms: an atom is one  *)
(* punctuation character, or a run of letters read as a whole (a command   *)
(* name, a keyword).  The text of a token is the sequence of the atoms it  *)
(* covers.  Positions count atoms from 0, as the code counts bytes from 0. *)
(* A tokenizer state is the index i of the atom get() returns next         *)
(* (tell() + 1), the tokens pushed, the exception thrown if any, and the   *)
(* deepest level of nested activations of tokens() reached.                *)
(***************************************************************************)
\* The atom that stands for the back quote character.
BackQuote == "<backquote>"

Punctuation ==
    {"$", "(", ")", "{", "}", "[", "]", "\"", BackQuote, " ", ";", "|", "&"}

Digits == {"0", "1", "2", "3", "4", "5", "6", "7", "8", "9"}

\* The characters after a dollar that name a special variable.
SpecialVariables == {"0", "$", "#", "@", "?"}

\* An atom that is a run of letters and underscores.
IsLetters(cChar) == cChar \notin Punctuation \cup Digits \cup {"!", "#", "@", "?"}

\* An atom a variable name goes on with: letters, underscores or a digit.
IsNameChar(cChar) == IsLetters(cChar) \/ cChar \in Digits

get_token_type(cChar) ==
    CASE cChar = "$" -> "TK_DOLLAR"
      [] cChar = "(" -> "TK_OPEN_PARENTHESIS"
      [] cChar = ")" -> "TK_CLOSE_PARENTHESIS"
      [] cChar = "{" -> "TK_OPEN_BRACKETS"
      [] cChar = "}" -> "TK_CLOSE_BRACKETS"
      [] cChar = "[" -> "TK_OPEN_SQR_BRACKETS"
      [] cChar = "]" -> "TK_CLOSE_SQR_BRACKETS"
      [] cChar = "\"" -> "TK_QUOTE_DOUBLE"
      [] cChar = BackQuote -> "TK_QUOTE_BACK"
      [] cChar = " " -> "TK_SPACE"
      [] cChar = ";" -> "TK_CMD_SEPARATOR"
      [] cChar = "|" -> "TK_PIPE"
      [] cChar = "&" -> "TK_BACKGROUND"
      [] OTHER -> "TK_WORD"

get_token_type_quote_complex(cChar) ==
    CASE cChar = "$" -> "TK_DOLLAR"
      [] cChar = "\"" -> "TK_QUOTE_DOUBLE"
      [] cChar = BackQuote -> "TK_QUOTE_BACK"
      [] OTHER -> "TK_WORD"

shell_token(nType, nPos, sTokenText) ==
    [m_nType |-> nType, m_nPos |-> nPos, m_sTokenText |-> sTokenText]

NoError == "none"

NoCall == << >>

\* The state of the tokenizer: the index of the next atom of the stream, the
\* tokens pushed, the exception thrown if any, and the deepest nesting of
\* activations of tokens().  known and wanted serve Activation below.
TokStart ==
    [i |-> 1, vTokens |-> << >>, err |-> NoError, errPos |-> 0, maxLevel |-> 1,
     known |-> {}, wanted |-> NoCall]

Push(st, oToken) == [st EXCEPT !.vTokens = Append(@, oToken)]

Throw(st, nStatus, nPos) == [st EXCEPT !.err = nStatus, !.errPos = nPos]

Max(a, b) == IF a >= b THEN a ELSE b

\* sub_view(nPos, 1): the atom at position nPos, nothing past the end.
sub_view(oStdIn, nPos) ==
    IF nPos + 1 <= Len(oStdIn) THEN <<oStdIn[nPos + 1]>> ELSE << >>

\* add_word: the atom at position nPos extends the last token when that is a
\* word pushed after nBegin, and starts a new word otherwise.
add_word(st, cChar, nPos, nBegin) ==
    LET n == Len(st.vTokens)
    IN  IF n > nBegin /\ st.vTokens[n].m_nType = "TK_WORD"
        THEN [st EXCEPT !.vTokens[n].m_sTokenText = Append(@, cChar)]
        ELSE Push(st, shell_token("TK_WORD", nPos, <<cChar>>))

\* add_space: a blank extends the last token when that is a space.
add_space(st, cChar, nPos) ==
    LET n == Len(st.vTokens)
    IN  IF n = 0 \/ st.vTokens[n].m_nType # "TK_SPACE"
        THEN Push(st, shell_token("TK_SPACE", nPos, <<cChar>>))
        ELSE [st EXCEPT !.vTokens[n].m_sTokenText = Append(@, cChar)]

UnclosedStatus(cDelimiter) ==
    CASE cDelimiter = ")" -> "SHELL_ERROR_SYNTAX_ERROR_UNCLOSED_PARENTHESES"
      [] cDelimiter = "]" -> "SHELL_ERROR_SYNTAX_ERROR_UNCLOSED_SQR_BRACKETS"
      [] cDelimiter = "}" -> "SHELL_ERROR_SYNTAX_ERROR_UNCLOSED_BRACKETS"
      [] cDelimiter = BackQuote -> "SHELL_ERROR_SYNTAX_ERROR_UNCLOSED_BACK_QUOTES"
      [] OTHER -> "SHELL_ERROR_SYNTAX_ERROR"

Closer(cChar) ==
    CASE cChar = "(" -> ")"
      [] cChar = "{" -> "}"
      [] cChar = "[" -> "]"
      [] cChar = BackQuote -> BackQuote

NoDelimiter == "<nul>"

RECURSIVE LettersEnd(_, _)
\* The index after the run of letters, underscores and digits that starts at
\* index i.
LettersEnd(oStdIn, i) ==
    IF i <= Len(oStdIn) /\ IsNameChar(oStdIn[i]) THEN LettersEnd(oStdIn, i + 1) ELSE i

RECURSIVE DigitsEnd(_, _)
\* The index after the run of digits that starts at index i.
DigitsEnd(oStdIn, i) ==
    IF i <= Len(oStdIn) /\ oStdIn[i] \in Digits THEN DigitsEnd(oStdIn, i + 1) ELSE i

\* An activation of tokens() one level deeper, entered after the opening
\* token oToken was pushed.
Deeper(st, oToken, nLevel) ==
    [Push(st, oToken) EXCEPT !.maxLevel = Max(@, nLevel + 1)]

RECURSIVE Block(_, _, _)
\* Up to nTurns turns of a loop from the loop state lp, fewer when the loop is
\* left before.
Block(Turn(_), lp, nTurns) ==
    IF lp.done THEN lp
    ELSE IF nTurns = 1 THEN Turn(lp)
    ELSE Block(Turn, Block(Turn, lp, nTurns \div 2), nTurns - (nTurns \div 2))

RECURSIVE Turns(_, _, _)
Turns(Turn(_), lp, nTurns) ==
    IF lp.done THEN lp ELSE Turns(Turn, Block(Turn, lp, nTurns), 2 * nTurns)

\* while (true) { ... }: the turns of the loop body from the loop state lp
\* until the loop is left by a return or a throw.
While(Turn(_), lp) == Turns(Turn, lp, 1)

(***************************************************************************)
(* The activations of a recursive function are evaluated innermost first.  *)
(* An activation that comes to a nested call whose result is not among the *)
(* known ones stops with Pending and names the call it wants; Activation   *)
(* evaluates the wanted activation, on its own, and then the asking one    *)
(* again.  The result is that of the nested calls of the code; only the    *)
(* order in which TLC evaluates them differs, which keeps its evaluation   *)
(* stack as short as one activation.                                       *)
(***************************************************************************)
Pending == "<pending>"

IsKnown(known, call) == \E e \in known : e.call = call

Known(known, call) == (CHOOSE e \in known : e.call = call).res

\* The innermost wanted activation is evaluated: it wants another one, or its
\* result becomes known to the activation that wanted it, or it is the
\* outermost one.
ActivationTurn(Run(_, _), lp) ==
    LET call == lp.wanted[Len(lp.wanted)]
        r == Run(lp.known, call)
    IN  IF r.err = Pending THEN [lp EXCEPT !.wanted = Append(@, r.wanted)]
        ELSE IF Len(lp.wanted) = 1 THEN [lp EXCEPT !.result = r, !.done = TRUE]
        ELSE [lp EXCEPT !.known = @ \cup {[call |-> call, res |-> r]},
                        !.wanted = SubSeq(@, 1, Len(@) - 1)]

Activation(Run(_, _), call) ==
    While(LAMBDA lp : ActivationTurn(Run, lp),
          [known |-> {}, wanted |-> <<call>>, result |-> NoCall, done |-> FALSE]).result

\* The state of a loop of the tokenizer: the tokenizer state, the number of
\* tokens below which add_word never extends, and whether the loop was left.
TokLoop(st, nBegin) == [st |-> st, nBegin |-> nBegin, done |-> st.err # NoError]

TokLeft(st) == [st |-> st, nBegin |-> 0, done |-> TRUE]

\* A call tokens(vTokens, oStdIn, cDelimiter) made when the atom at index i is
\* the next of the stream, nLevel activations of tokens() being on the call
\* stack with it.
TokCall(i, cDelimiter, nLevel) == [i |-> i, cDelimiter |-> cDelimiter, nLevel |-> nLevel]

\* tokens(vTokens, oStdIn, cDelimiter) called in the state st: the tokens of the
\* activation are pushed after those of st.
tokens_from(st, cDelimiter, nLevel) ==
    LET call == TokCall(st.i, cDelimiter, nLevel)
        res == Known(st.known, call)
    IN  IF IsKnown(st.known, call)
        THEN [st EXCEPT !.i = res.i, !.vTokens = @ \o res.vTokens, !.err = res.err,
                        !.errPos = res.errPos, !.maxLevel = Max(@, res.maxLevel)]
        ELSE [st EXCEPT !.err = Pending, !.wanted = call]

\* tokens_dollar_variable, entered after get() returned the brace at index
\* i - 1: st.i = i is the index of the atom after it.  The exclamation token
\* takes the position and the text of the atom after the exclamation mark.
tokens_dollar_variable(oStdIn, st) ==
    LET i == st.i
        nBracketPos == i - 2
        withBrace == Push(st, shell_token("TK_OPEN_BRACKETS", nBracketPos, <<"{">>))
        bDoubleHop == i <= Len(oStdIn) /\ oStdIn[i] = "!"
        withMark == IF bDoubleHop
                    THEN Push(withBrace, shell_token("TK_EXCLAMATION", i, sub_view(oStdIn, i)))
                    ELSE withBrace
        n == IF bDoubleHop THEN i + 1 ELSE i
        nVariableStartPos == n - 1
        e == IF oStdIn[n] \in Digits THEN DigitsEnd(oStdIn, n + 1)
             ELSE LettersEnd(oStdIn, n + 1)
    IN  IF n > Len(oStdIn) \/ ~(oStdIn[n] \in Digits \ {"0"} \/ IsLetters(oStdIn[n]))
        THEN Throw(withMark, "SHELL_ERROR_SYNTAX_ERROR_INVALID_VARIABLE_NAME", nBracketPos)
        ELSE IF e > Len(oStdIn) \/ oStdIn[e] # "}"
        THEN Throw(withMark, "SHELL_ERROR_SYNTAX_ERROR_UNCLOSED_VARIABLE", nBracketPos)
        ELSE [Push(Push(withMark,
                        shell_token("TK_WORD", nVariableStartPos, SubSeq(oStdIn, n, e - 1))),
                   shell_token("TK_CLOSE_BRACKETS", e - 1, <<"}">>))
                 EXCEPT !.i = e + 1]

\* tokens_dollar, entered after get() returned the dollar: st.i is the index of
\* the atom after it.
tokens_dollar(oStdIn, st, nLevel) ==
    LET i == st.i
        nDollarPos == i - 2
        nPos == i - 1
        withDollar == Push(st, shell_token("TK_DOLLAR", nDollarPos, <<"$">>))
    IN  IF i <= Len(oStdIn) /\ oStdIn[i] \in SpecialVariables
        THEN [Push(withDollar, shell_token("TK_DOLLAR_SPECIAL", nPos, <<oStdIn[i]>>))
                 EXCEPT !.i = i + 1]
        ELSE IF i <= Len(oStdIn) /\ oStdIn[i] \in Digits
        THEN [Push(withDollar, shell_token("TK_WORD", nPos, <<oStdIn[i]>>)) EXCEPT !.i = i + 1]
        ELSE IF i <= Len(oStdIn) /\ oStdIn[i] = "{"
        THEN tokens_dollar_variable(oStdIn, [withDollar EXCEPT !.i = i + 1])
        ELSE IF i <= Len(oStdIn) /\ oStdIn[i] = "("
        THEN tokens_from([Deeper(withDollar, shell_token("TK_OPEN_PARENTHESIS", nPos, <<"(">>), nLevel)
                            EXCEPT !.i = i + 1],
                         ")", nLevel + 1)
        ELSE IF i <= Len(oStdIn) /\ IsLetters(oStdIn[i])
        THEN LET j == LettersEnd(oStdIn, i)
             IN  [Push(withDollar, shell_token("TK_WORD", nPos, SubSeq(oStdIn, i, j - 1)))
                     EXCEPT !.i = j]
        ELSE \* the dollar is popped and pushed again as a word
             Push(st, shell_token("TK_WORD", nDollarPos, <<"$">>))
\* One turn of the loop of tokens_quote_double, on the atom at index st.i.
\* nPos is the position taken when the function was entered; the loop never
\* updates it.
tokens_quote_double_turn(oStdIn, lp, nQuotePos, nPos, nLevel) ==
    LET st == lp.st
        nBegin == lp.nBegin
        cChar == oStdIn[st.i]
        after == [st EXCEPT !.i = @ + 1]
        nTokenType == get_token_type_quote_complex(cChar)
    IN  IF st.i > Len(oStdIn)
        THEN TokLeft(Throw(st, "SHELL_ERROR_SYNTAX_ERROR_UNCLOSED_DOUBLE_QUOTES", nQuotePos))
        ELSE CASE nTokenType = "TK_QUOTE_DOUBLE" ->
                    TokLeft(Push(after, shell_token("TK_QUOTE_DOUBLE", st.i - 1, <<cChar>>)))
               [] nTokenType = "TK_QUOTE_BACK" ->
                    LET r == tokens_from(
                                 Deeper(after, shell_token(nTokenType, nPos, sub_view(oStdIn, nPos)), nLevel),
                                 BackQuote, nLevel + 1)
                    IN  TokLoop(r, Len(r.vTokens))
               [] nTokenType = "TK_DOLLAR" ->
                    LET r == tokens_dollar(oStdIn, after, nLevel)
                    IN  TokLoop(r, Len(r.vTokens))
               [] OTHER -> TokLoop(add_word(after, cChar, st.i - 1, nBegin), nBegin)

\* The loop of tokens_quote_double from the atom at index st.i on.
tokens_quote_double_from(oStdIn, st, nQuotePos, nPos, nBegin, nLevel) ==
    While(LAMBDA lp : tokens_quote_double_turn(oStdIn, lp, nQuotePos, nPos, nLevel),
          TokLoop(st, nBegin)).st

\* tokens_quote_double, entered after get() returned the opening quote.  The
\* opening token takes the position of the atom after the quote.
tokens_quote_double(oStdIn, st, nLevel) ==
    LET nQuotePos == st.i - 1
        nPos == st.i - 1
    IN  tokens_quote_double_from(
            oStdIn,
            Push(st, shell_token("TK_QUOTE_DOUBLE", nPos, sub_view(oStdIn, nPos))),
            nQuotePos, nPos, Len(st.vTokens), nLevel)

\* One turn of the loop of tokens(vTokens, oStdIn, cDelimiter), on the atom at
\* index st.i, and what follows the loop when the stream has ended.  nStartPos
\* is tell() at entry, nLevel the number of activations of tokens() on the
\* call stack.
tokens_turn(oStdIn, lp, cDelimiter, nStartPos, nLevel) ==
    LET st == lp.st
        nBegin == lp.nBegin
        cChar == oStdIn[st.i]
        nPos == st.i - 1
        after == [st EXCEPT !.i = @ + 1]
        nTokenType == get_token_type(cChar)
        doubled == st.i + 1 <= Len(oStdIn) /\ oStdIn[st.i + 1] = cChar
        twice(nType) == [Push(after, shell_token(nType, nPos, <<cChar, cChar>>))
                            EXCEPT !.i = st.i + 2]
        once(nType) == Push(after, shell_token(nType, nPos, <<cChar>>))
    IN  IF st.i > Len(oStdIn)
        THEN TokLeft(IF cDelimiter = NoDelimiter THEN st
                     ELSE Throw(st, UnclosedStatus(cDelimiter), nStartPos))
        ELSE IF cChar = cDelimiter THEN TokLeft(once(nTokenType))
        ELSE CASE nTokenType = "TK_QUOTE_DOUBLE" ->
                    TokLoop(tokens_quote_double(oStdIn, after, nLevel), nBegin)
               [] nTokenType \in {"TK_QUOTE_BACK", "TK_OPEN_PARENTHESIS",
                                 "TK_OPEN_BRACKETS", "TK_OPEN_SQR_BRACKETS"} ->
                    LET r == tokens_from(Deeper(after, shell_token(nTokenType, nPos, <<cChar>>), nLevel),
                                         Closer(cChar), nLevel + 1)
                    IN  TokLoop(r, Len(r.vTokens))
               [] nTokenType = "TK_DOLLAR" ->
                    LET r == tokens_dollar(oStdIn, after, nLevel)
                    IN  TokLoop(r, Len(r.vTokens))
               [] nTokenType = "TK_WORD" -> TokLoop(add_word(after, cChar, nPos, nBegin), nBegin)
               [] nTokenType = "TK_SPACE" -> TokLoop(add_space(after, cChar, nPos), nBegin)
               [] nTokenType = "TK_PIPE" ->
                    TokLoop(IF doubled THEN twice("TK_OR") ELSE once("TK_PIPE"), nBegin)
               [] nTokenType = "TK_BACKGROUND" ->
                    TokLoop(IF doubled THEN twice("TK_AND") ELSE once("TK_BACKGROUND"), nBegin)
               [] nTokenType \in {"TK_CLOSE_PARENTHESIS", "TK_CLOSE_BRACKETS",
                                 "TK_CLOSE_SQR_BRACKETS"} ->
                    TokLeft(Throw(after, "SHELL_ERROR_SYNTAX_ERROR_UNEXPECTED_TOKEN", nPos))
               [] OTHER -> TokLoop(once(nTokenType), nBegin)

\* The activation call of tokens(vTokens, oStdIn, cDelimiter) on its own: the
\* tokens it pushes, from the first atom it reads to its return or throw.
tokens_run(oStdIn, known, call) ==
    LET st == [TokStart EXCEPT !.i = call.i, !.maxLevel = call.nLevel, !.known = known]
        r == While(LAMBDA lp : tokens_turn(oStdIn, lp, call.cDelimiter, call.i - 1, call.nLevel),
                   TokLoop(st, 0)).st
    IN  [r EXCEPT !.known = {}]

\* shell_tokenizer::tokens(oStdIn)
tokens(oStdIn) ==
    Activation(LAMBDA known, call : tokens_run(oStdIn, known, call),
               TokCall(1, NoDelimiter, 1))

(***************************************************************************)
(* token_holder and shell_parser.  A holder T is the token vector and the  *)
(* size of the stream.  The parser state ps holds p, the index of the      *)
(* current token (m_nPos + 1, so 0 before the first get()), the exception  *)
(* thrown if any, the node the last function returned, the largest value   *)
(* m_nDepth took and the deepest nesting of parse_block activations.  The  *)
(* frame k of a call holds m_nDepth as it is when the call is made (the    *)
(* depth_guard objects alive on the call stack) and the number of          *)
(* parse_block activations on the call stack.  The branches for tokens no  *)
(* modelled source produces (simple quote, backslash, unicode) are left    *)
(* out.                                                                    *)
(***************************************************************************)
PM_NORMAL == {}
PM_BACKQUOTE == {"PM_BACKQUOTE"}
PM_LOOP == {"PM_LOOP"}
PM_FUNCTION_NAME == {"PM_FUNCTION_NAME"}

SK_NONE == {}
SK_IF_DELIMITER == {"else", "elif", "fi"}
KeywordNames ==
    {"function", "if", "then", "else", "elif", "fi", "for", "in", "while",
     "until", "do", "done", "continue", "break"}

\* has(nItem, nSet) of parse modes and of keywords: a common bit.
has(nItem, nSet) == nItem \cap nSet # {}

get_keyword_id(sTokenText) ==
    IF Len(sTokenText) = 1 /\ sTokenText[1] \in KeywordNames
    THEN {sTokenText[1]} ELSE SK_NONE

is_var(sTokenText) ==
    /\ sTokenText # << >>
    /\ IsLetters(sTokenText[1])
    /\ \A n \in 2..Len(sTokenText) : IsNameChar(sTokenText[n])

\* is_arg of a string view: digits only, nineteen at most; no check for empty.
is_arg(sArg) ==
    /\ Len(sArg) <= 19
    /\ \A n \in 1..Len(sArg) : sArg[n] \in Digits

NullToken == shell_token("nullptr", 0, << >>)

\* known serves Activation.
token_holder(oStdIn, vTokens) ==
    [m_vTokens |-> vTokens, size |-> Len(oStdIn), known |-> {}]

current(T, ps) ==
    IF ps.p >= 1 /\ ps.p <= Len(T.m_vTokens) THEN T.m_vTokens[ps.p] ELSE NullToken

next(T, ps) ==
    IF ps.p + 1 >= 1 /\ ps.p + 1 <= Len(T.m_vTokens) THEN T.m_vTokens[ps.p + 1] ELSE NullToken

get(ps) == [ps EXCEPT !.p = @ + 1]

put_back(ps) == [ps EXCEPT !.p = @ - 1]

\* pos(): the index of the current token, the size of the stream when there is none.
pos(T, ps) ==
    IF ps.p >= 1 /\ ps.p <= Len(T.m_vTokens) THEN ps.p - 1 ELSE T.size

is(T, ps, nType) == current(T, ps).m_nType = nType

is_next(T, ps, nType) == next(T, ps).m_nType = nType

KeywordFollowers ==
    {"TK_SPACE", "TK_CMD_SEPARATOR", "TK_OPEN_PARENTHESIS", "TK_OPEN_BRACKETS",
     "TK_OPEN_SQR_BRACKETS", "TK_CLOSE_PARENTHESIS", "TK_CLOSE_BRACKETS",
     "TK_CLOSE_SQR_BRACKETS"}

keyword(T, ps) ==
    LET pCurrent == current(T, ps)
        pNext == next(T, ps)
    IN  IF pCurrent = NullToken THEN SK_NONE
        ELSE IF pNext # NullToken /\ pNext.m_nType \notin KeywordFollowers THEN SK_NONE
        ELSE IF pCurrent.m_nType = "TK_WORD" THEN get_keyword_id(pCurrent.m_sTokenText)
        ELSE SK_NONE

RECURSIVE SkipSpaces(_, _)
\* while (m_oTokens.is(TK_SPACE)) m_oTokens.get();
SkipSpaces(T, ps) == IF is(T, ps, "TK_SPACE") THEN SkipSpaces(T, get(ps)) ELSE ps

RECURSIVE SkipNextSpaces(_, _)
\* while (m_oTokens.is_next(TK_SPACE)) m_oTokens.get();
SkipNextSpaces(T, ps) == IF is_next(T, ps, "TK_SPACE") THEN SkipNextSpaces(T, get(ps)) ELSE ps

NullNode == [type |-> "nullptr"]

ParseStart ==
    [p |-> 0, err |-> NoError, errPos |-> 0, node |-> NullNode, maxDepth |-> 0, maxLevel |-> 0,
     wanted |-> NoCall]

PThrow(ps, nStatus, nPos) == [ps EXCEPT !.err = nStatus, !.errPos = nPos, !.node = NullNode]

Ret(ps, pNode) == [ps EXCEPT !.node = pNode]

Unexpected(ps, nPos) == PThrow(ps, "SHELL_ERROR_SYNTAX_ERROR_UNEXPECTED_TOKEN", nPos)

\* The node constructors that refuse a null child.
InvalidArgument(ps) == PThrow(ps, "shell_node_invalid_argument", 0)

MAX_DEPTH == SHELL_MAX_DEPTH

Frame0 == [m_nDepth |-> 0, level |-> 0]

\* increase_depth throws when the incremented depth passes MAX_DEPTH.
increase_depth_unguarded(nDepth) == FALSE

increase_depth_throws(nDepth) == nDepth + 1 > MAX_DEPTH

\* depth_guard: the state after the constructor; the destructor is the return
\* to the caller's frame.
depth_guard(ps, k, nPos) ==
    IF increase_depth_throws(k.m_nDepth)
    THEN PThrow(ps, "SHELL_ERROR_MAX_DEPTH_REACHED", nPos)
    ELSE [ps EXCEPT !.maxDepth = Max(@, k.m_nDepth + 1)]

Guarded(k) == [k EXCEPT !.m_nDepth = @ + 1]

Called(k) == [k EXCEPT !.level = @ + 1]

Enter(ps, k) == [ps EXCEPT !.maxLevel = Max(@, k.level + 1)]

PRIORITY_PIPE == 5
PRIORITY_AND == 4
PRIORITY_OR == 3

Operators == {"SNT_PIPE", "SNT_AND", "SNT_OR"}

get_priority(pNode) ==
    CASE pNode.type = "SNT_PIPE" -> PRIORITY_PIPE
      [] pNode.type = "SNT_AND" -> PRIORITY_AND
      [] pNode.type = "SNT_OR" -> PRIORITY_OR
      [] OTHER -> 0

\* shell_node_operator::make, both operands not null.
make(nType, pLeft, pRight) ==
    LET pCentral == [type |-> nType, m_pLeft |-> NullNode, m_pRight |-> NullNode]
        afterLeft ==
            IF pLeft.type \notin Operators \/ get_priority(pLeft) >= get_priority(pCentral)
            THEN [pCentral EXCEPT !.m_pLeft = pLeft]
            ELSE [pLeft EXCEPT !.m_pRight = [pCentral EXCEPT !.m_pLeft = pLeft.m_pRight]]
    IN  IF pRight.type \notin Operators \/ get_priority(pRight) < get_priority(afterLeft)
        THEN [afterLeft EXCEPT !.m_pRight = pRight]
        ELSE [pRight EXCEPT !.m_pLeft = [afterLeft EXCEPT !.m_pRight = pRight.m_pLeft]]

shell_node_word(oToken) == [type |-> "SNT_WORD", m_sText |-> oToken.m_sTokenText]

shell_node_null_command == [type |-> "SNT_NULL_COMMAND"]

\* fromBrackets is a history field: TRUE on the block parse_brackets builds for a
\* brace group, FALSE on the one that holds the expressions of a command group or
\* of a block.
shell_node_command_block(vSubCommands) ==
    [type |-> "SNT_COMMAND_BLOCK", m_vSubCommands |-> vSubCommands, fromBrackets |-> FALSE]

OrNullCommand(pNode) == IF pNode = NullNode THEN shell_node_null_command ELSE pNode

\* A call of the parser function fn made when the token at index p is the
\* current one, with the arguments a, by a caller of frame k.
ParseCall(fn, p, a, k) == [fn |-> fn, p |-> p, a |-> a, k |-> k]

\* The state after the call: that of its activation, the depths reached before
\* the call kept.
Nested(T, ps, call) ==
    LET res == Known(T.known, call)
    IN  IF IsKnown(T.known, call)
        THEN [res EXCEPT !.maxDepth = Max(@, ps.maxDepth), !.maxLevel = Max(@, ps.maxLevel)]
        ELSE [ps EXCEPT !.err = Pending, !.wanted = call]

\* parse_block(nEnd): k is the frame of the caller.
parse_block(T, ps, nEnd, k) ==
    Nested(T, ps, ParseCall("parse_block", ps.p, <<{nEnd}>>, k))

\* parse_block(nEnd, nMode), the overload that ends at a keyword.
parse_block_keyword(T, ps, nEnd, nMode, k) ==
    Nested(T, ps, ParseCall("parse_block_keyword", ps.p, <<nEnd, nMode>>, k))

parse_command_group(T, ps, nMode, k) ==
    Nested(T, ps, ParseCall("parse_command_group", ps.p, <<nMode>>, k))

parse_keyword(T, ps, nKeyword, nMode, k) ==
    Nested(T, ps, ParseCall("parse_keyword", ps.p, <<nKeyword, nMode>>, k))

parse_quote_back(T, ps, k) ==
    LET r == parse_block(T, ps, "TK_QUOTE_BACK", k)
    IN  IF r.err # NoError THEN r
        ELSE Ret(r, [type |-> "SNT_STR_BACK", m_pCommand |-> OrNullCommand(r.node)])

parse_dollar_command(T, ps, k) ==
    LET guarded == depth_guard(ps, k, pos(T, ps))
        r == parse_block(T, guarded, "TK_CLOSE_PARENTHESIS", Guarded(k))
    IN  IF guarded.err # NoError THEN guarded
        ELSE IF r.err # NoError THEN r
        ELSE Ret(r, [type |-> "SNT_DOLLAR_COMMAND", m_pCommand |-> OrNullCommand(r.node)])

DigitValue(cChar) ==
    CHOOSE n \in 0..9 : <<"0", "1", "2", "3", "4", "5", "6", "7", "8", "9">>[n + 1] = cChar

RECURSIVE stoull_from(_, _, _)
\* The number that the digits of sArg from index i on go on from n.
stoull_from(sArg, i, n) ==
    IF i > Len(sArg) \/ sArg[i] \notin Digits THEN n
    ELSE stoull_from(sArg, i + 1, 10 * n + DigitValue(sArg[i]))

\* std::stoull converts the digits a text starts with and throws
\* std::invalid_argument when it starts with none.
stoull_throws(sArg) == sArg = << >> \/ sArg[1] \notin Digits

stoull(sArg) == stoull_from(sArg, 1, 0)

\* get_arg_number reads the text of the current token of the holder.
get_arg_number(T, ps) == stoull(current(T, ps).m_sTokenText)

get_arg_number_throws(T, ps) == stoull_throws(current(T, ps).m_sTokenText)

StdInvalidArgument(ps) == PThrow(ps, "std::invalid_argument", 0)

\* A node of an argument, its number taken from the current token.
ArgNode(T, ps, nType) ==
    IF get_arg_number_throws(T, ps) THEN StdInvalidArgument(ps)
    ELSE Ret(ps, [type |-> nType, m_nArg |-> get_arg_number(T, ps)])

\* parse_dollar_variable, entered with the opening brace as current token.
parse_dollar_variable(T, ps) ==
    LET nStartPos == pos(T, ps)
        first == get(ps)
        bDoubleHop == is(T, first, "TK_EXCLAMATION")
        atName == IF bDoubleHop THEN get(first) ELSE first
        pNameToken == current(T, atName)
        sName == pNameToken.m_sTokenText
        atClose == get(atName)
    IN  IF current(T, first) = NullToken \/ pNameToken = NullToken
        THEN PThrow(atName, "SHELL_ERROR_SYNTAX_ERROR_UNCLOSED_VARIABLE", nStartPos)
        ELSE IF pNameToken.m_nType # "TK_WORD" THEN Unexpected(atName, nStartPos)
        ELSE IF ~is_arg(sName) /\ ~is_var(sName)
        THEN PThrow(atName, "SHELL_ERROR_SYNTAX_ERROR_INVALID_VARIABLE_NAME", nStartPos)
        ELSE IF current(T, atClose) = NullToken
        THEN PThrow(atClose, "SHELL_ERROR_SYNTAX_ERROR_UNCLOSED_VARIABLE", nStartPos)
        ELSE IF is_arg(sName)
        THEN ArgNode(T, atClose, IF bDoubleHop THEN "SNT_DOLLAR_ARG_DHOP" ELSE "SNT_DOLLAR_ARG")
        ELSE Ret(atClose, [type |-> IF bDoubleHop THEN "SNT_DOLLAR_VARIABLE_DHOP"
                                    ELSE "SNT_DOLLAR_VARIABLE",
                           m_sVariable |-> sName])

parse_dollar(T, ps, k) ==
    LET nStartPos == pos(T, ps)
        after == get(ps)
        pToken == current(T, after)
    IN  CASE pToken = NullToken -> Unexpected(after, nStartPos)
          [] pToken.m_nType = "TK_WORD" ->
               IF is_arg(pToken.m_sTokenText) THEN ArgNode(T, after, "SNT_ARG")
               ELSE IF is_var(pToken.m_sTokenText)
               THEN Ret(after, [type |-> "SNT_VARIABLE", m_sVariable |-> pToken.m_sTokenText])
               ELSE PThrow(after, "SHELL_ERROR_SYNTAX_ERROR_INVALID_VARIABLE_NAME", pToken.m_nPos)
          [] pToken.m_nType = "TK_DOLLAR_SPECIAL" ->
               Ret(after, [type |-> "SNT_DOLLAR_SPECIAL", m_cItem |-> pToken.m_sTokenText])
          [] pToken.m_nType = "TK_OPEN_BRACKETS" -> parse_dollar_variable(T, after)
          [] pToken.m_nType = "TK_OPEN_PARENTHESIS" -> parse_dollar_command(T, after, k)
          [] OTHER -> Unexpected(after, pToken.m_nPos)

RECURSIVE parse_quote_double_loop(_, _, _, _, _)
RECURSIVE parse_command_expression_loop(_, _, _, _, _)
RECURSIVE parse_command_group_loop(_, _, _, _, _, _)
RECURSIVE parse_test_expression_loop(_, _, _, _)
RECURSIVE parse_block_loop(_, _, _, _, _, _)
RECURSIVE parse_block_keyword_loop(_, _, _, _, _, _, _)
RECURSIVE parse_if(_, _, _)

\* The loop of parse_quote_double on the current token, and the return.
parse_quote_double_loop(T, ps, k, vTokens, nStartPos) ==
    IF ps.err # NoError THEN ps
    ELSE LET pToken == current(T, ps)
         IN  CASE pToken = NullToken ->
                    PThrow(ps, "SHELL_ERROR_SYNTAX_ERROR_UNCLOSED_DOUBLE_QUOTES", nStartPos)
               [] pToken.m_nType = "TK_QUOTE_DOUBLE" ->
                    Ret(ps, [type |-> "SNT_STR_DOUBLE", m_vChildren |-> vTokens])
               [] pToken.m_nType = "TK_WORD" ->
                    parse_quote_double_loop(T, get(ps), k,
                                            Append(vTokens, shell_node_word(pToken)), nStartPos)
               [] pToken.m_nType = "TK_DOLLAR" ->
                    LET r == parse_dollar(T, ps, k)
                    IN  parse_quote_double_loop(T, get(r), k, Append(vTokens, r.node), nStartPos)
               [] pToken.m_nType = "TK_QUOTE_BACK" ->
                    LET r == parse_quote_back(T, ps, k)
                    IN  parse_quote_double_loop(T, get(r), k, Append(vTokens, r.node), nStartPos)
               [] OTHER -> Unexpected(ps, pToken.m_nPos)

parse_quote_double(T, ps, k) ==
    parse_quote_double_loop(T, get(ps), k, << >>, pos(T, ps))

\* The loop of parse_command_expression on the current token, and the return.
parse_command_expression_loop(T, ps, nMode, k, vTokens) ==
    LET finish(qs) ==
            IF vTokens = << >> THEN Ret(qs, NullNode)
            ELSE Ret(qs, [type |-> "SNT_COMMAND_EXPRESSION", m_vChildren |-> vTokens])
        pToken == current(T, ps)
        sub(r) == parse_command_expression_loop(T, get(r), nMode, k, Append(vTokens, r.node))
    IN  IF ps.err # NoError THEN ps
        ELSE CASE pToken = NullToken -> finish(ps)
               [] pToken.m_nType = "TK_WORD" ->
                    parse_command_expression_loop(T, get(ps), nMode, k,
                                                  Append(vTokens, shell_node_word(pToken)))
               [] pToken.m_nType = "TK_SPACE" ->
                    parse_command_expression_loop(
                        T, get(ps), nMode, k,
                        IF vTokens # << >> /\ vTokens[Len(vTokens)] # NullNode
                        THEN Append(vTokens, NullNode) ELSE vTokens)
               [] pToken.m_nType = "TK_QUOTE_DOUBLE" -> sub(parse_quote_double(T, ps, k))
               [] pToken.m_nType = "TK_QUOTE_BACK" ->
                    IF has(nMode, PM_BACKQUOTE) THEN finish(put_back(ps))
                    ELSE sub(parse_quote_back(T, ps, k))
               [] pToken.m_nType = "TK_DOLLAR" -> sub(parse_dollar(T, ps, k))
               [] pToken.m_nType \in {"TK_CMD_SEPARATOR", "TK_CLOSE_PARENTHESIS",
                                      "TK_CLOSE_BRACKETS", "TK_CLOSE_SQR_BRACKETS",
                                      "TK_PIPE", "TK_OR", "TK_BACKGROUND", "TK_AND"} ->
                    finish(put_back(ps))
               [] pToken.m_nType = "TK_OPEN_BRACKETS" ->
                    IF has(nMode, PM_FUNCTION_NAME) THEN finish(put_back(ps))
                    ELSE Unexpected(ps, pToken.m_nPos)
               [] OTHER -> Unexpected(ps, pToken.m_nPos)

parse_command_expression(T, ps, nMode, k) ==
    parse_command_expression_loop(T, get(ps), nMode, k, << >>)

parse_command(T, ps, nMode, k) ==
    LET r == parse_command_expression(T, ps, nMode, k)
    IN  IF r.err # NoError THEN r
        ELSE IF r.node = NullNode THEN Ret(r, shell_node_null_command)
        ELSE Ret(r, [type |-> "SNT_COMMAND", m_pCommand |-> r.node])

\* The loop of parse_test_expression on the current token, and the return.
parse_test_expression_loop(T, ps, k, vTokens) ==
    LET pToken == current(T, ps)
        sub(r) == parse_test_expression_loop(T, get(r), k, Append(vTokens, r.node))
    IN  IF ps.err # NoError THEN ps
        ELSE CASE pToken = NullToken \/ pToken.m_nType = "TK_CLOSE_SQR_BRACKETS" ->
                    LET qs == IF is(T, ps, "TK_CLOSE_SQR_BRACKETS") THEN put_back(ps) ELSE ps
                    IN  IF vTokens = << >> THEN Ret(qs, NullNode)
                        ELSE Ret(qs, [type |-> "SNT_COMMAND_EXPRESSION", m_vChildren |-> vTokens])
               [] pToken.m_nType \in {"TK_WORD", "TK_OR", "TK_AND", "TK_OPEN_PARENTHESIS",
                                      "TK_CLOSE_PARENTHESIS"} ->
                    parse_test_expression_loop(T, get(ps), k,
                                               Append(vTokens, shell_node_word(pToken)))
               [] pToken.m_nType = "TK_SPACE" ->
                    parse_test_expression_loop(
                        T, get(ps), k,
                        IF vTokens # << >> /\ vTokens[Len(vTokens)] # NullNode
                        THEN Append(vTokens, NullNode) ELSE vTokens)
               [] pToken.m_nType = "TK_QUOTE_DOUBLE" -> sub(parse_quote_double(T, ps, k))
               [] pToken.m_nType = "TK_QUOTE_BACK" -> sub(parse_quote_back(T, ps, k))
               [] pToken.m_nType = "TK_DOLLAR" -> sub(parse_dollar(T, ps, k))
               [] OTHER -> Unexpected(ps, pToken.m_nPos)

parse_test_expression(T, ps, k) == parse_test_expression_loop(T, get(ps), k, << >>)

parse_sqr_brackets(T, ps, k) ==
    LET nPos == pos(T, ps)
        r == parse_test_expression(T, ps, k)
        after == get(r)
    IN  IF r.err # NoError THEN r
        ELSE IF ~is(T, after, "TK_CLOSE_SQR_BRACKETS")
        THEN PThrow(after, "SHELL_ERROR_SYNTAX_ERROR_UNCLOSED_SQR_BRACKETS", nPos)
        ELSE IF r.node = NullNode THEN Unexpected(after, nPos)
        ELSE Ret(after, [type |-> "SNT_TEST", m_pTest |-> r.node])

\* The return of both parse_block overloads.
BlockResult(ps, vExpressions) ==
    IF vExpressions = << >> THEN Ret(ps, NullNode)
    ELSE IF Len(vExpressions) = 1 THEN Ret(ps, vExpressions[1])
    ELSE Ret(ps, shell_node_command_block(vExpressions))

UnclosedBlockStatus(nEnd) ==
    CASE nEnd = "TK_CLOSE_PARENTHESIS" -> "SHELL_ERROR_SYNTAX_ERROR_UNCLOSED_PARENTHESES"
      [] nEnd = "TK_CLOSE_BRACKETS" -> "SHELL_ERROR_SYNTAX_ERROR_UNCLOSED_BRACKETS"
      [] nEnd = "TK_CLOSE_SQR_BRACKETS" -> "SHELL_ERROR_SYNTAX_ERROR_UNCLOSED_SQR_BRACKETS"
      [] nEnd = "TK_QUOTE_BACK" -> "SHELL_ERROR_SYNTAX_ERROR_UNCLOSED_BACK_QUOTES"
      [] OTHER -> "SHELL_ERROR_SYNTAX_ERROR"

parse_parentheses(T, ps, k) ==
    LET guarded == depth_guard(ps, k, pos(T, ps))
        r == parse_block(T, guarded, "TK_CLOSE_PARENTHESIS", Guarded(k))
    IN  IF guarded.err # NoError THEN guarded
        ELSE IF r.err # NoError THEN r
        ELSE IF r.node = NullNode THEN Ret(r, shell_node_null_command)
        ELSE Ret(r, [type |-> "SNT_COMMAND_BLOCK_SUBSHELL", m_vSubCommands |-> <<r.node>>])

parse_brackets(T, ps, k) ==
    LET guarded == depth_guard(ps, k, pos(T, ps))
        r == parse_block(T, guarded, "TK_CLOSE_BRACKETS", Guarded(k))
    IN  IF guarded.err # NoError THEN guarded
        ELSE IF r.err # NoError THEN r
        ELSE IF r.node = NullNode THEN Ret(r, shell_node_null_command)
        ELSE Ret(r, [shell_node_command_block(<<r.node>>) EXCEPT !.fromBrackets = TRUE])

parse_command_group_oper(T, ps, vExpressions, nNodeType, nPos, nMode, k) ==
    IF vExpressions = << >> THEN Unexpected(ps, nPos)
    ELSE LET r == parse_command_group(T, ps, nMode, k)
             pLeft == vExpressions[Len(vExpressions)]
         IN  IF r.err # NoError THEN r
             ELSE IF r.node = NullNode THEN Unexpected(r, nPos)
             ELSE IF pLeft = NullNode THEN InvalidArgument(r)
             ELSE Ret(r, make(nNodeType, pLeft, r.node))

\* get() and the skipping of spaces that parse_command_group does before each
\* turn of its loop.
NextInGroup(T, ps) == SkipSpaces(T, get(ps))

\* The loop of parse_command_group on the current token, and the return.
parse_command_group_loop(T, ps, nMode, k, vExpressions, nStartPos) ==
    LET finish(qs) ==
            IF vExpressions = << >> THEN Ret(qs, NullNode)
            ELSE Ret(qs, shell_node_command_block(vExpressions))
        pToken == current(T, ps)
        more(r, v) == parse_command_group_loop(T, NextInGroup(T, r), nMode, k, v, nStartPos)
        pushed(r) == more(r, Append(vExpressions, r.node))
        pushedUnlessNull(r) ==
            IF r.err # NoError THEN r
            ELSE more(r, IF r.node.type # "SNT_NULL_COMMAND"
                         THEN Append(vExpressions, r.node) ELSE vExpressions)
        replaced(r) ==
            IF r.err # NoError THEN r
            ELSE more(r, [vExpressions EXCEPT ![Len(vExpressions)] = r.node])
        oper(nNodeType) ==
            replaced(parse_command_group_oper(T, ps, vExpressions, nNodeType,
                                              pToken.m_nPos, nMode, k))
    IN  IF ps.err # NoError THEN ps
        ELSE CASE pToken = NullToken -> finish(ps)
               [] pToken.m_nType = "TK_WORD" ->
                    IF keyword(T, ps) = SK_NONE
                    THEN pushed(parse_command(T, put_back(ps), nMode, k))
                    ELSE pushed(parse_keyword(T, ps, keyword(T, ps), nMode, k))
               [] pToken.m_nType \in {"TK_DOLLAR", "TK_QUOTE_DOUBLE"} ->
                    pushedUnlessNull(parse_command(T, put_back(ps), nMode, k))
               [] pToken.m_nType = "TK_QUOTE_BACK" ->
                    IF has(nMode, PM_BACKQUOTE) THEN finish(put_back(ps))
                    ELSE pushedUnlessNull(parse_command(T, ps, PM_BACKQUOTE, k))
               [] pToken.m_nType = "TK_OPEN_PARENTHESIS" -> pushed(parse_parentheses(T, ps, k))
               [] pToken.m_nType = "TK_OPEN_BRACKETS" -> pushed(parse_brackets(T, ps, k))
               [] pToken.m_nType = "TK_OPEN_SQR_BRACKETS" -> pushed(parse_sqr_brackets(T, ps, k))
               [] pToken.m_nType \in {"TK_CMD_SEPARATOR", "TK_CLOSE_PARENTHESIS",
                                      "TK_CLOSE_BRACKETS", "TK_CLOSE_SQR_BRACKETS"} ->
                    finish(put_back(ps))
               [] pToken.m_nType = "TK_BACKGROUND" ->
                    IF vExpressions = << >> THEN Unexpected(ps, pToken.m_nPos)
                    ELSE IF vExpressions[Len(vExpressions)] = NullNode THEN InvalidArgument(ps)
                    ELSE Ret(ps, shell_node_command_block(
                                     [vExpressions EXCEPT ![Len(vExpressions)] =
                                         [type |-> "SNT_BACKGROUND", m_pCommand |-> @]]))
               [] pToken.m_nType = "TK_PIPE" -> oper("SNT_PIPE")
               [] pToken.m_nType = "TK_AND" -> oper("SNT_AND")
               [] pToken.m_nType = "TK_OR" -> oper("SNT_OR")
               [] OTHER -> Unexpected(ps, pToken.m_nPos)

\* The activation of parse_command_group.
parse_command_group_run(T, ps, nMode, k) ==
    LET first == NextInGroup(T, ps)
    IN  parse_command_group_loop(T, first, nMode, k, << >>, pos(T, first))

BlockOpeners ==
    {"TK_OPEN_PARENTHESIS", "TK_OPEN_BRACKETS", "TK_OPEN_SQR_BRACKETS",
     "TK_DOLLAR", "TK_QUOTE_DOUBLE"}

\* The loop of parse_block(nEnd) on the current token, and what follows it.
parse_block_loop(T, ps, nEnd, k, vExpressions, nStartPos) ==
    LET pToken == current(T, ps)
        nMode == IF nEnd = "TK_QUOTE_BACK" THEN PM_BACKQUOTE ELSE PM_NORMAL
        pushed(r) == parse_block_loop(T, get(r), nEnd, k, Append(vExpressions, r.node), nStartPos)
    IN  IF ps.err # NoError THEN ps
        ELSE CASE pToken = NullToken ->
                    IF nEnd # "TK_EOF" THEN PThrow(ps, UnclosedBlockStatus(nEnd), nStartPos)
                    ELSE BlockResult(ps, vExpressions)
               [] pToken.m_nType = nEnd -> BlockResult(ps, vExpressions)
               [] pToken.m_nType = "TK_WORD" ->
                    IF keyword(T, ps) = SK_NONE
                    THEN pushed(parse_command_group(T, put_back(ps), nMode, k))
                    ELSE pushed(parse_keyword(T, ps, keyword(T, ps), PM_NORMAL, k))
               [] pToken.m_nType \in BlockOpeners ->
                    pushed(parse_command_group(T, put_back(ps), nMode, k))
               [] pToken.m_nType = "TK_QUOTE_BACK" ->
                    pushed(parse_command_group(T, ps, PM_BACKQUOTE, k))
               [] pToken.m_nType \in {"TK_SPACE", "TK_CMD_SEPARATOR"} ->
                    parse_block_loop(T, get(ps), nEnd, k, vExpressions, nStartPos)
               [] OTHER -> Unexpected(ps, pToken.m_nPos)

\* The loop of parse_block(nEnd, nMode) on the current token, and what follows
\* it.  The branch of the opening tokens declares a mode of its own, which
\* is never PM_LOOP.
parse_block_keyword_loop(T, ps, nEnd, nMode, k, vExpressions, nStartPos) ==
    LET pToken == current(T, ps)
        pushed(r) == parse_block_keyword_loop(T, get(r), nEnd, nMode, k,
                                              Append(vExpressions, r.node), nStartPos)
        nStatus == IF nEnd = SK_IF_DELIMITER
                   THEN "SHELL_ERROR_SYNTAX_ERROR_UNFINISHED_KEYWORD_IF"
                   ELSE IF nEnd = {"done"}
                   THEN "SHELL_ERROR_SYNTAX_ERROR_UNFINISHED_KEYWORD_LOOP"
                   ELSE "SHELL_ERROR_SYNTAX_ERROR"
    IN  IF ps.err # NoError THEN ps
        ELSE CASE pToken = NullToken ->
                    IF nEnd # SK_NONE THEN PThrow(ps, nStatus, nStartPos)
                    ELSE BlockResult(ps, vExpressions)
               [] has(keyword(T, ps), nEnd) -> BlockResult(ps, vExpressions)
               [] pToken.m_nType = "TK_WORD" ->
                    IF keyword(T, ps) = SK_NONE
                    THEN pushed(parse_command_group(T, put_back(ps), nMode, k))
                    ELSE pushed(parse_keyword(T, ps, keyword(T, ps), nMode, k))
               [] pToken.m_nType \in BlockOpeners ->
                    pushed(parse_command_group(T, put_back(ps), PM_NORMAL, k))
               [] pToken.m_nType = "TK_QUOTE_BACK" ->
                    pushed(parse_command_group(T, ps, PM_BACKQUOTE, k))
               [] pToken.m_nType \in {"TK_SPACE", "TK_CMD_SEPARATOR"} ->
                    parse_block_keyword_loop(T, get(ps), nEnd, nMode, k, vExpressions, nStartPos)
               [] OTHER -> Unexpected(ps, pToken.m_nPos)

\* The continue and break cases of parse_keyword.
parse_loop_control(T, ps, nKeyword, nMode, nPos) ==
    LET skipped == SkipNextSpaces(T, ps)
    IN  IF /\ has(nMode, PM_LOOP)
           /\ \/ next(T, skipped) = NullToken
              \/ next(T, skipped).m_nType \in {"TK_CMD_SEPARATOR", "TK_OR", "TK_AND"}
        THEN Ret(skipped, [type |-> IF nKeyword = {"break"} THEN "SNT_BREAK" ELSE "SNT_CONTINUE"])
        ELSE Unexpected(IF has(nMode, PM_LOOP) THEN skipped ELSE ps, nPos)

\* The else and elif cases of parse_if open a second depth_guard.
parse_else(T, ps, k, nPos, pCondition, pBlock) ==
    LET guarded == depth_guard(ps, k, nPos)
        r == IF keyword(T, ps) = {"else"}
             THEN parse_block_keyword(T, guarded, SK_IF_DELIMITER, PM_NORMAL, Guarded(k))
             ELSE parse_if(T, guarded, Guarded(k))
    IN  IF guarded.err # NoError THEN guarded
        ELSE IF r.err # NoError THEN r
        ELSE IF pCondition = NullNode THEN InvalidArgument(r)
        ELSE Ret(r, [type |-> "SNT_IF", m_pCondition |-> pCondition,
                     m_pCaseIf |-> pBlock, m_pCaseElse |-> r.node])

parse_if(T, ps, k) ==
    LET nPos == pos(T, ps)
        c == parse_command_group(T, ps, PM_NORMAL, k)
        atSep == SkipSpaces(T, get(c))
        atThen == SkipSpaces(T, get(atSep))
        b == parse_block_keyword(T, atThen, SK_IF_DELIMITER, PM_NORMAL, k)
        pBlock == OrNullCommand(b.node)
    IN  IF c.err # NoError THEN c
        ELSE IF ~is(T, atSep, "TK_CMD_SEPARATOR") THEN Unexpected(atSep, pos(T, atSep))
        ELSE IF keyword(T, atThen) # {"then"}
        THEN PThrow(atThen, "SHELL_ERROR_SYNTAX_ERROR_MISSING_KEYWORD_THEN", nPos)
        ELSE IF b.err # NoError THEN b
        ELSE IF keyword(T, b) \in {{"else"}, {"elif"}}
        THEN parse_else(T, b, k, nPos, c.node, pBlock)
        ELSE IF keyword(T, b) = {"fi"}
        THEN IF c.node = NullNode THEN InvalidArgument(b)
             ELSE Ret(b, [type |-> "SNT_IF", m_pCondition |-> c.node,
                          m_pCaseIf |-> pBlock, m_pCaseElse |-> NullNode])
        ELSE PThrow(b, "SHELL_ERROR_SYNTAX_ERROR_UNFINISHED_KEYWORD_IF", nPos)

parse_for(T, ps, k) ==
    LET nPos == pos(T, ps)
        atVar == SkipSpaces(T, get(ps))
        atIn == SkipSpaces(T, get(atVar))
        s == parse_command_expression(T, atIn, PM_NORMAL, k)
        atSep == get(s)
        atDo == SkipSpaces(T, get(atSep))
        guarded == depth_guard(atDo, k, nPos)
        b == parse_block_keyword(T, guarded, {"done"}, PM_LOOP, Guarded(k))
    IN  IF ~is(T, atVar, "TK_WORD") \/ ~is_var(current(T, atVar).m_sTokenText)
        THEN PThrow(atVar, "SHELL_ERROR_SYNTAX_ERROR_INVALID_VARIABLE_NAME", nPos)
        ELSE IF keyword(T, atIn) # {"in"}
        THEN PThrow(atIn, "SHELL_ERROR_SYNTAX_ERROR_MISSING_KEYWORD_IN", nPos)
        ELSE IF s.err # NoError THEN s
        ELSE IF ~is(T, atSep, "TK_CMD_SEPARATOR") THEN Unexpected(atSep, pos(T, atSep))
        ELSE IF keyword(T, atDo) # {"do"}
        THEN PThrow(atDo, "SHELL_ERROR_SYNTAX_ERROR_MISSING_KEYWORD_DO", nPos)
        ELSE IF guarded.err # NoError THEN guarded
        ELSE IF b.err # NoError THEN b
        ELSE IF s.node = NullNode THEN InvalidArgument(b)
        ELSE Ret(b, [type |-> "SNT_FOR", m_sVariable |-> current(T, atVar).m_sTokenText,
                     m_pSequence |-> s.node, m_pIterative |-> OrNullCommand(b.node)])

\* parse_while and parse_until, which differ in the node they build.
parse_loop(T, ps, k, nType) ==
    LET nPos == pos(T, ps)
        c == parse_command_group(T, ps, PM_NORMAL, k)
        atSep == get(c)
        atDo == SkipSpaces(T, get(atSep))
        guarded == depth_guard(atDo, k, nPos)
        b == parse_block_keyword(T, guarded, {"done"}, PM_LOOP, Guarded(k))
    IN  IF c.err # NoError THEN c
        ELSE IF ~is(T, atSep, "TK_CMD_SEPARATOR") THEN Unexpected(atSep, pos(T, atSep))
        ELSE IF keyword(T, atDo) # {"do"}
        THEN PThrow(atDo, "SHELL_ERROR_SYNTAX_ERROR_MISSING_KEYWORD_DO", nPos)
        ELSE IF guarded.err # NoError THEN guarded
        ELSE IF b.err # NoError THEN b
        ELSE IF c.node = NullNode THEN InvalidArgument(b)
        ELSE Ret(b, [type |-> nType, m_pCondition |-> c.node,
                     m_pIterative |-> OrNullCommand(b.node)])

parse_while(T, ps, k) == parse_loop(T, ps, k, "SNT_WHILE")

parse_until(T, ps, k) == parse_loop(T, ps, k, "SNT_UNTIL")

parse_function(T, ps, k) ==
    LET nPos == pos(T, ps)
        n == parse_command_expression(T, put_back(SkipSpaces(T, get(ps))), PM_FUNCTION_NAME, k)
        atBody == SkipSpaces(T, get(n))
        b == parse_block(T, atBody, "TK_CLOSE_BRACKETS", k)
    IN  IF n.err # NoError THEN n
        ELSE IF n.node = NullNode
        THEN PThrow(n, "SHELL_ERROR_SYNTAX_ERROR_INVALID_FUNCTION_NAME", nPos)
        ELSE IF ~is(T, atBody, "TK_OPEN_BRACKETS")
        THEN PThrow(atBody, "SHELL_ERROR_SYNTAX_ERROR_INVALID_FUNCTION_BODY", nPos)
        ELSE IF b.err # NoError THEN b
        ELSE Ret(b, [type |-> "SNT_FUNCTION", m_pName |-> n.node,
                     m_pBody |-> OrNullCommand(b.node)])

\* The activation of parse_keyword.
parse_keyword_run(T, ps, nKeyword, nMode, k) ==
    LET nPos == pos(T, ps)
        guarded == depth_guard(ps, k, nPos)
        inner == Guarded(k)
    IN  IF guarded.err # NoError THEN guarded
        ELSE CASE nKeyword = {"if"} -> parse_if(T, guarded, inner)
               [] nKeyword = {"for"} -> parse_for(T, guarded, inner)
               [] nKeyword = {"while"} -> parse_while(T, guarded, inner)
               [] nKeyword = {"until"} -> parse_until(T, guarded, inner)
               [] nKeyword \in {{"continue"}, {"break"}} ->
                    parse_loop_control(T, guarded, nKeyword, nMode, nPos)
               [] nKeyword = {"function"} -> parse_function(T, guarded, inner)
               [] OTHER -> Unexpected(guarded, nPos)

\* The activations of parse_block, from the entry to the return or throw.
parse_block_run(T, ps, nEnd, k) ==
    parse_block_loop(T, get(Enter(ps, k)), nEnd, Called(k), << >>, pos(T, ps))

parse_block_keyword_run(T, ps, nEnd, nMode, k) ==
    parse_block_keyword_loop(T, get(Enter(ps, k)), nEnd, nMode, Called(k), << >>, pos(T, ps))

\* The activation call on its own, from its entry to its return or throw.
parse_run(T, call) ==
    LET ps == [ParseStart EXCEPT !.p = call.p]
        a == call.a
    IN  CASE call.fn = "parse_block" ->
               parse_block_run(T, ps, CHOOSE nEnd \in a[1] : TRUE, call.k)
          [] call.fn = "parse_block_keyword" ->
               parse_block_keyword_run(T, ps, a[1], a[2], call.k)
          [] call.fn = "parse_command_group" ->
               parse_command_group_run(T, ps, a[1], call.k)
          [] call.fn = "parse_keyword" ->
               parse_keyword_run(T, ps, a[1], a[2], call.k)

\* shell_parser::parse: the exception of the tokenizer or of the parser, or the
\* tree.  tokErr and tokLevel keep the exception and the deepest level of the
\* tokenizer.
parse_end(t, r) ==
    LET tok == [tokErr |-> t.err, tokLevel |-> t.maxLevel]
    IN  IF t.err # NoError
        THEN PThrow(ParseStart, t.err, t.errPos) @@ tok
        ELSE (IF r.err # NoError THEN r ELSE Ret(r, OrNullCommand(r.node))) @@ tok

parse_tokens(oStdIn, t) ==
    parse_end(t, Activation(LAMBDA known, call :
                                parse_run([token_holder(oStdIn, t.vTokens)
                                              EXCEPT !.known = known], call),
                            ParseCall("parse_block", 0, <<{"TK_EOF"}>>, Frame0)))

parse(oStdIn) == parse_tokens(oStdIn, tokens(oStdIn))

(***************************************************************************)
(* The nodes below a node, and the measures of a tree.                     *)
(***************************************************************************)
Children(pNode) ==
    CASE pNode.type \in {"SNT_COMMAND_BLOCK", "SNT_COMMAND_BLOCK_SUBSHELL"} -> pNode.m_vSubCommands
      [] pNode.type \in {"SNT_COMMAND_EXPRESSION", "SNT_STR_DOUBLE"} -> pNode.m_vChildren
      [] pNode.type \in {"SNT_COMMAND", "SNT_STR_BACK", "SNT_DOLLAR_COMMAND", "SNT_BACKGROUND"} ->
           <<pNode.m_pCommand>>
      [] pNode.type \in Operators -> <<pNode.m_pLeft, pNode.m_pRight>>
      [] pNode.type = "SNT_TEST" -> <<pNode.m_pTest>>
      [] pNode.type = "SNT_IF" -> <<pNode.m_pCondition, pNode.m_pCaseIf, pNode.m_pCaseElse>>
      [] pNode.type = "SNT_FOR" -> <<pNode.m_pSequence, pNode.m_pIterative>>
      [] pNode.type \in {"SNT_WHILE", "SNT_UNTIL"} -> <<pNode.m_pCondition, pNode.m_pIterative>>
      [] pNode.type = "SNT_FUNCTION" -> <<pNode.m_pName, pNode.m_pBody>>
      [] OTHER -> << >>

\* The nodes built under a depth_guard.
IsGuardedNode(pNode) ==
    \/ pNode.type \in {"SNT_COMMAND_BLOCK_SUBSHELL", "SNT_DOLLAR_COMMAND", "SNT_IF",
                       "SNT_FOR", "SNT_WHILE", "SNT_UNTIL"}
    \/ pNode.type = "SNT_COMMAND_BLOCK" /\ pNode.fromBrackets

\* A node and the number of guarded constructs it is nested in, itself counted.
Nested_in(pNode, n) == [node |-> pNode, n |-> n + (IF IsGuardedNode(pNode) THEN 1 ELSE 0)]

\* One node of the tree is visited: the nodes below it are left to visit.
NestTurn(lp) ==
    LET head == lp.queue[1]
        below == Children(head.node)
    IN  IF lp.queue = << >> THEN [lp EXCEPT !.done = TRUE]
        ELSE [lp EXCEPT !.queue = Tail(@) \o [i \in 1..Len(below) |-> Nested_in(below[i], head.n)],
                        !.max = Max(@, head.n)]

\* The largest number of guarded constructs nested in one another in a tree.
NestDepth(pNode) ==
    While(NestTurn, [queue |-> <<Nested_in(pNode, 0)>>, max |-> 0, done |-> FALSE]).max

(***************************************************************************)
(* Sources with nested constructs.  A construct kind has the atoms written *)
(* before and after what it encloses.                                      *)
(***************************************************************************)
MaxOpen == 18
MaxInner == 2

LoopKinds == {"for", "while", "until"}
GuardedKinds == {"paren", "dollar", "brace", "if", "else"} \cup LoopKinds
UnguardedKinds == {"function", "quoteback", "sqr"}

Pre(sKind) ==
    CASE sKind = "paren" -> <<"(">>
      [] sKind = "dollar" -> <<"$", "(">>
      [] sKind = "brace" -> <<"{">>
      [] sKind = "sqr" -> <<"[">>
      [] sKind = "quoteback" -> <<"\"", BackQuote>>
      [] sKind = "backquote" -> <<BackQuote>>
      [] sKind = "function" -> <<"function", " ", "f", " ", "{">>
      [] sKind = "if" -> <<"if", " ", "a", ";", " ", "then", " ">>
      [] sKind = "else" -> <<"if", " ", "a", ";", " ", "then", " ", "b", ";", " ", "else", " ">>
      [] sKind = "for" -> <<"for", " ", "x", " ", "in", " ", "a", ";", " ", "do", " ">>
      [] sKind = "while" -> <<"while", " ", "a", ";", " ", "do", " ">>
      [] sKind = "until" -> <<"until", " ", "a", ";", " ", "do", " ">>
      [] sKind = "condition" -> <<"while", " ">>

Post(sKind) ==
    CASE sKind \in {"paren", "dollar"} -> <<")">>
      [] sKind \in {"brace", "function"} -> <<"}">>
      [] sKind = "sqr" -> <<"]">>
      [] sKind = "quoteback" -> <<BackQuote, "\"">>
      [] sKind = "backquote" -> <<BackQuote>>
      [] sKind \in {"if", "else"} -> <<";", " ", "fi">>
      [] sKind \in LoopKinds -> <<";", " ", "done">>
      [] sKind = "condition" -> <<";", " ", "do", " ", "a", ";", " ", "done">>

RECURSIVE Render(_, _, _)
\* The source that nests the constructs vKinds, the first one outermost, around
\* vBody; when not bClosed the source ends after vBody.
Render(vKinds, vBody, bClosed) ==
    IF vKinds = << >> THEN vBody
    ELSE Pre(vKinds[1]) \o Render(Tail(vKinds), vBody, bClosed)
         \o (IF bClosed THEN Post(vKinds[1]) ELSE << >>)

Repeat(sKind, n) == [i \in 1..n |-> sKind]

InnerKinds == {"paren", "while"}

\* A run of one kind around a short run of a second kind.
NestShapes ==
    {Repeat(k1, i) \o Repeat(k2, j) :
        k1 \in GuardedKinds \cup UnguardedKinds, k2 \in InnerKinds,
        i \in 0..MaxOpen, j \in 0..MaxInner}

RECURSIVE OpenGuarded(_)
\* The number of guarded constructs open at once at the innermost point of
\* the nest; what a test expression encloses is no construct.
OpenGuarded(vKinds) ==
    IF vKinds = << >> \/ vKinds[1] = "sqr" THEN 0
    ELSE (IF vKinds[1] \in GuardedKinds THEN 1 ELSE 0) + OpenGuarded(Tail(vKinds))

InitNesting ==
    /\ stack = <<RootFrame>>
    /\ event = NoEvent
    /\ src \in {[kind |-> "nest", vKinds |-> v, bClosed |-> c] :
                    v \in {w \in NestShapes : Len(w) <= MaxOpen}, c \in BOOLEAN}
    /\ out = NoOut

\* What is kept of the state r in which shell_parser::parse ends.
NestOut(r) ==
    [kind |-> "nest", err |-> r.err, tokErr |-> r.tokErr,
     tokLevel |-> r.tokLevel, maxLevel |-> r.maxLevel, maxDepth |-> r.maxDepth,
     treeDepth |-> IF r.err = NoError THEN NestDepth(r.node) ELSE 0]

\* shell_parser::parse on the source of a nest.
ParseNest ==
    /\ src.kind = "nest"
    /\ out = NoOut
    /\ out' = NestOut(parse(Render(src.vKinds, <<"a">>, src.bClosed)))
    /\ UNCHANGED <<sessVars, src>>

NestingNext ==
    \/ ParseNest

SpecNesting == InitNesting /\ [][NestingNext]_vars

\* C5: on every input the recursion of the tokenizer and of the parser is bounded
\* by a constant: no more than MAX_DEPTH + 1 activations of tokens() and of
\* parse_block are ever nested, deeper nesting being stopped by an error.
C5_RecursionBounded ==
    out.kind = "nest" =>
        /\ out.tokLevel <= SHELL_MAX_DEPTH + 1
        /\ out.maxLevel <= SHELL_MAX_DEPTH + 1

MaxDepthReached == "SHELL_ERROR_MAX_DEPTH_REACHED"

\* C6 as stated: every source with more than MAX_DEPTH guarded constructs open at
\* once fails with the max-depth error, and no tree nests more than MAX_DEPTH
\* guarded constructs.
C6_AnySourceFailsMaxDepth ==
    out.kind = "nest" =>
        /\ OpenGuarded(src.vKinds) > SHELL_MAX_DEPTH => out.err = MaxDepthReached
        /\ out.err = NoError => out.treeDepth <= SHELL_MAX_DEPTH

\* C6 amended: every source the tokenizer accepts, with more than MAX_DEPTH
\* guarded constructs open at once and well formed up to the innermost opener,
\* fails with the max-depth error, and no tree nests more than MAX_DEPTH guarded
\* constructs.
C6_TokenizedSourceFailsMaxDepth ==
    out.kind = "nest" =>
        /\ (out.tokErr = NoError /\ OpenGuarded(src.vKinds) > SHELL_MAX_DEPTH)
               => out.err = MaxDepthReached
        /\ out.err = NoError => out.treeDepth <= SHELL_MAX_DEPTH

\* A mix of two kinds of guarded constructs, 17 or more open at once, closed,
\* rejected with the max-depth error.
C6_Witness ==
    /\ out.kind = "nest"
    /\ src.bClosed
    /\ OpenGuarded(src.vKinds) > SHELL_MAX_DEPTH
    /\ src.vKinds[1] # src.vKinds[Len(src.vKinds)]
    /\ out.tokErr = NoError
    /\ out.err = MaxDepthReached

(***************************************************************************)
(* Sources of programs: one statement, or two with a separator between.    *)
(***************************************************************************)
Statements ==
    {<<"a">>,
     <<"a", " ", "b">>,
     <<"a", " ", "$", "1">>,
     <<"a", " ", "$", "{", "1", "}">>,
     <<"a", " ", "$", "{", "1", "2", "}">>,
     <<"a", " ", "$", "{", "!", "1", "}">>,
     <<"a", " ", "$", "{", "x", "}">>,
     <<"a", " ", "$", "{", "!", "x", "}">>,
     <<"a", " ", "\"", "$", "{", "2", "}", "\"">>,
     <<"a", " ", "$", "{", "x">>,
     <<BackQuote, BackQuote>>,
     <<BackQuote, "a", BackQuote>>,
     <<"(", "a", ")">>,
     <<"(", ")">>,
     <<"{", "a", "}">>,
     <<"a", " ", "&", "&", " ", "b">>,
     <<"a", " ", "&", "&", " ", "break">>,
     <<" ", " ", "break">>,
     <<"a", " ", "|">>,
     <<"if", " ", "a", ";", " ", "then", " ", "b", ";", " ", "fi">>,
     <<"if", " ", ";", " ", "then", " ", "a", ";", " ", "fi">>,
     <<"while", " ", ";", " ", "do", " ", "a", ";", " ", "done">>,
     <<"while", " ", "a", ";", " ", "do", " ", "break", ";", " ", "done">>,
     <<"for", " ", "x", " ", "in", " ", ";", " ", "do", " ", "a", ";", " ", "done">>,
     <<"for", " ", "x", " ", "in", " ", "a", ";", " ", "do", " ", "b", ";", " ", "done">>,
     <<"function", " ", "f", " ", "{", "a", "}">>,
     <<"function", " ", "{", "a", "}">>}

Separators == {<<";">>, <<";", " ">>}

ParseSources ==
    Statements \cup {s1 \o sep \o s2 : s1 \in Statements, sep \in Separators, s2 \in Statements}

\* How the command group before the operator of a loop body begins: a plain
\* word, a test, a parenthesis, a brace, a double quote, a dollar.
LoopLefts ==
    {<<"a">>,
     <<"[", " ", "a", " ", "]">>,
     <<"(", "a", ")">>,
     <<"{", "a", "}">>,
     <<"\"", "a", "\"">>,
     <<"$", "x">>}

LoopOpers == {<<"&", "&">>, <<"|", "|">>}

LoopSignals == {<<"break">>, <<"continue">>}

LoopHeads ==
    {<<"while", " ", "a", ";", " ", "do", " ">>,
     <<"for", " ", "x", " ", "in", " ", "a", ";", " ", "do", " ">>}

\* A loop whose body is one command group: a left operand, an operator and a
\* break or a continue, followed by a separator.
LoopSource(vHead, vLeft, vOper, vSignal) ==
    vHead \o vLeft \o <<" ">> \o vOper \o <<" ">> \o vSignal \o <<";", " ", "done">>

LoopSources ==
    {LoopSource(h, l, o, s) : h \in LoopHeads, l \in LoopLefts, o \in LoopOpers, s \in LoopSignals}

\* Command groups: the commands a, b, c, d joined by operators.
MaxChain == 3

ChainLeaves == <<"a", "b", "c", "d">>

OperText(nType) ==
    CASE nType = "SNT_PIPE" -> <<"|">>
      [] nType = "SNT_AND" -> <<"&", "&">>
      [] nType = "SNT_OR" -> <<"|", "|">>

RECURSIVE ChainSource(_)
\* The source of the chain of the operators vOpers: a for none, a || b for one.
ChainSource(vOpers) ==
    IF vOpers = << >> THEN <<ChainLeaves[1]>>
    ELSE ChainSource(SubSeq(vOpers, 1, Len(vOpers) - 1))
         \o <<" ">> \o OperText(vOpers[Len(vOpers)]) \o <<" ", ChainLeaves[Len(vOpers) + 1]>>

Chains == UNION {[1..n -> Operators] : n \in 1..MaxChain}

ChainSources == {ChainSource(v) : v \in Chains}

\* Where a break or a continue stands: outside any loop, in the body of a
\* loop, behind an operator in the body, or in a construct nested in the body.
SignalPlaces ==
    {"top", "loop", "oper", "if", "brace", "paren", "dollar", "function", "backquote"}

InLoop == <<"while", " ", "a", ";", " ", "do", " ">>

PlacePre(sPlace) ==
    CASE sPlace = "top" -> << >>
      [] sPlace = "loop" -> InLoop
      [] sPlace = "oper" -> InLoop \o <<"a", " ", "&", "&", " ">>
      [] sPlace = "if" -> InLoop \o <<"if", " ", "a", ";", " ", "then", " ">>
      [] sPlace = "brace" -> InLoop \o <<"{">>
      [] sPlace = "paren" -> InLoop \o <<"(">>
      [] sPlace = "dollar" -> InLoop \o <<"a", " ", "$", "(">>
      [] sPlace = "function" -> InLoop \o <<"function", " ", "f", " ", "{">>
      [] sPlace = "backquote" -> InLoop \o <<"a", " ", BackQuote>>

PlacePost(sPlace) ==
    CASE sPlace = "top" -> << >>
      [] sPlace \in {"loop", "oper"} -> <<";", " ", "done">>
      [] sPlace = "if" -> <<";", " ", "fi", ";", " ", "done">>
      [] sPlace \in {"brace", "function"} -> <<"}", ";", " ", "done">>
      [] sPlace \in {"paren", "dollar"} -> <<")", ";", " ", "done">>
      [] sPlace = "backquote" -> <<BackQuote, ";", " ", "done">>

\* What is written behind the keyword, before what closes its place.
SignalFollowers == {"end", "space", "and", "or", "tight and", "tight pipe", "word"}

FollowerText(sFollower) ==
    CASE sFollower = "end" -> << >>
      [] sFollower = "space" -> <<" ">>
      [] sFollower = "and" -> <<" ", "&", "&", " ", "a">>
      [] sFollower = "or" -> <<" ", "|", "|", " ", "a">>
      [] sFollower = "tight and" -> <<"&", "&", "a">>
      [] sFollower = "tight pipe" -> <<"|", "a">>
      [] sFollower = "word" -> <<" ", "a">>

SignalSource(sPlace, vSignal, sFollower) ==
    PlacePre(sPlace) \o vSignal \o FollowerText(sFollower) \o PlacePost(sPlace)

SignalSources ==
    {SignalSource(p, s, f) : p \in SignalPlaces, s \in LoopSignals, f \in SignalFollowers}

InitParse ==
    /\ stack = <<RootFrame>>
    /\ event = NoEvent
    /\ src \in {[kind |-> "parse", text |-> s] :
                    s \in ParseSources \cup LoopSources \cup ChainSources \cup SignalSources}
    /\ out = NoOut

\* The offsets at which the tokens of a vector start.
TokenStarts(vTokens) == {vTokens[i].m_nPos : i \in 1..Len(vTokens)}

\* What is kept of the state r in which shell_parser::parse ends on the tokens
\* of the state t of the tokenizer.
ParseOut(oStdIn, t, r) ==
    [kind |-> "parse", err |-> r.err, errPos |-> r.errPos, tokErr |-> r.tokErr,
     node |-> IF r.err = NoError THEN r.node ELSE NullNode,
     starts |-> TokenStarts(t.vTokens), nTokens |-> Len(t.vTokens), size |-> Len(oStdIn)]

ParseResult(oStdIn, t) == ParseOut(oStdIn, t, parse_tokens(oStdIn, t))

\* shell_parser::parse on a source.
Parse ==
    /\ src.kind = "parse"
    /\ out = NoOut
    /\ out' = ParseResult(src.text, tokens(src.text))
    /\ UNCHANGED <<sessVars, src>>

ParseNext ==
    \/ Parse

SpecParse == InitParse /\ [][ParseNext]_vars

\* is_syntax_error: the statuses a shell_parser_exception carries.
SyntaxStatuses ==
    {"SHELL_ERROR_SYNTAX_ERROR",
     "SHELL_ERROR_SYNTAX_ERROR_UNCLOSED_SIMPLE_QUOTES",
     "SHELL_ERROR_SYNTAX_ERROR_UNCLOSED_DOUBLE_QUOTES",
     "SHELL_ERROR_SYNTAX_ERROR_UNCLOSED_BACK_QUOTES",
     "SHELL_ERROR_SYNTAX_ERROR_UNCLOSED_PARENTHESES",
     "SHELL_ERROR_SYNTAX_ERROR_UNCLOSED_BRACKETS",
     "SHELL_ERROR_SYNTAX_ERROR_UNCLOSED_SQR_BRACKETS",
     "SHELL_ERROR_SYNTAX_ERROR_UNCLOSED_SUBCOMMAND",
     "SHELL_ERROR_SYNTAX_ERROR_UNCLOSED_VARIABLE",
     "SHELL_ERROR_SYNTAX_ERROR_INVALID_VARIABLE_NAME",
     "SHELL_ERROR_SYNTAX_ERROR_UNEXPECTED_TOKEN",
     "SHELL_ERROR_SYNTAX_ERROR_UNEXPECTED_EOF",
     "SHELL_ERROR_SYNTAX_ERROR_ARG_OUT_OF_RANGE",
     "SHELL_ERROR_SYNTAX_ERROR_EMPTY_BLOCK",
     "SHELL_ERROR_SYNTAX_ERROR_UNFINISHED_KEYWORD_IF",
     "SHELL_ERROR_SYNTAX_ERROR_MISSING_KEYWORD_THEN",
     "SHELL_ERROR_SYNTAX_ERROR_UNFINISHED_KEYWORD_LOOP",
     "SHELL_ERROR_SYNTAX_ERROR_UNFINISHED_KEYWORD_FOR",
     "SHELL_ERROR_SYNTAX_ERROR_MISSING_KEYWORD_IN",
     "SHELL_ERROR_SYNTAX_ERROR_UNFINISHED_KEYWORD_WHILE",
     "SHELL_ERROR_SYNTAX_ERROR_UNFINISHED_KEYWORD_UNTIL",
     "SHELL_ERROR_SYNTAX_ERROR_MISSING_KEYWORD_DO",
     "SHELL_ERROR_SYNTAX_ERROR_INVALID_FUNCTION_NAME",
     "SHELL_ERROR_SYNTAX_ERROR_INVALID_FUNCTION_BODY",
     "SHELL_ERROR_MAX_DEPTH_REACHED"}

\* C12: tokenizing and parsing a source ends with a tree or with a
\* shell_parser_exception carrying a syntax status; no other exception escapes,
\* also when a condition, a sequence, a name or a body is empty or when ${...}
\* names a positional argument.
C12_OnlySyntaxErrorsEscape ==
    out.kind = "parse" => out.err \in {NoError} \cup SyntaxStatuses

BlockTypes == {"SNT_COMMAND_BLOCK", "SNT_COMMAND_BLOCK_SUBSHELL"}

RECURSIVE HasNullChild(_)
\* pNode, or a node below it, is a command block or a subshell block with no
\* child or with a nullptr among its children (shell_node_command_block::evaluate
\* calls evaluate on every child).
HasNullChild(pNode) ==
    LET vBelow == Children(pNode)
    IN  \/ /\ pNode.type \in BlockTypes
           /\ \/ vBelow = << >>
              \/ \E i \in 1..Len(vBelow) : vBelow[i] = NullNode
        \/ \E i \in 1..Len(vBelow) : vBelow[i] # NullNode /\ HasNullChild(vBelow[i])

\* C13: no tree the parser returns holds a command block or a subshell block
\* with an empty child list or with a null child.
C13_NoNullChild ==
    (out.kind = "parse" /\ out.err = NoError) => ~HasNullChild(out.node)

\* The source a ${N} or a ${!N}, N written with the digits vDigits.
ArgSource(vDigits, bDoubleHop) ==
    <<"a", " ", "$", "{">> \o (IF bDoubleHop THEN <<"!">> ELSE << >>) \o vDigits \o <<"}">>

ArgDigits == {<<"1">>, <<"2">>, <<"1", "2">>}

\* The node of the third child of the command of a one-command program.
ThirdChild(pNode) == pNode.m_vSubCommands[1].m_pCommand.m_vChildren[3]

\* C18: ${N} parses to the positional-argument node of index N, and ${!N} to
\* the double-hop positional-argument node of index N.
C18_BracedArgIsArg ==
    \A vDigits \in ArgDigits, bDoubleHop \in BOOLEAN :
        (out.kind = "parse" /\ src.text = ArgSource(vDigits, bDoubleHop)) =>
            /\ out.err = NoError
            /\ ThirdChild(out.node) =
                   [type |-> IF bDoubleHop THEN "SNT_DOLLAR_ARG_DHOP" ELSE "SNT_DOLLAR_ARG",
                    m_nArg |-> stoull(vDigits)]

\* C20: the position of every syntax error is the offset in the source of a
\* token (or the size of the source, at its end), never an index into the
\* token vector.
C20_ErrorAtByteOffset ==
    (out.kind = "parse" /\ out.err \in SyntaxStatuses) =>
        IF out.tokErr = NoError
        THEN out.errPos \in out.starts \cup {out.size}
        ELSE out.errPos \in 0..out.size

(***************************************************************************)
(* evaluate.  An evaluation state es holds the session evaluate is called  *)
(* with (its tables, its last command result, the content of its standard  *)
(* input and the stream that is its standard output), the content of every *)
(* output stream (stream 1 is the standard output of the session shell::run*)
(* was called with), the signal (exception) in flight, and the value the   *)
(* last evaluate returned.  History fields: the trace of what was run, the  *)
(* activations of loops, pipe sides and function calls the evaluation is   *)
(* in, and the non-loop nodes entered since the innermost loop.  Command   *)
(* substitution is not followed: no modelled program holds one.            *)
(***************************************************************************)
MaxIterations == 8    \* iterations of loops one evaluation is followed for

SHELL_SUCCESS == "SHELL_SUCCESS"

NoSignal == "none"

EmptyTable == [n \in {} |-> << >>]

\* shell_session::shell_session, with standard output the stream nOut.
EvalStart ==
    [var |-> EmptyTable, env |-> EmptyTable, vt |-> EmptyTable, arg |-> << >>,
     last |-> SHELL_SUCCESS, in |-> << >>, out |-> 1,
     streams |-> << << >> >>, sig |-> NoSignal, status |-> SHELL_SUCCESS, cut |-> FALSE,
     trace |-> << >>, loops |-> << >>, nLoops |-> 0, nIterations |-> 0,
     pipes |-> << >>, nPipes |-> 0, calls |-> << >>, via |-> << >>,
     depth |-> 0, tree |-> 1, nTrees |-> 1, dead |-> {}, owner |-> EmptyTable,
     inner |-> SHELL_SUCCESS]

\* An exception is in flight, or the evaluation is followed no further.
Stopped(es) == es.sig # NoSignal \/ es.cut

Returns(es, nStatus) == [es EXCEPT !.status = nStatus]

Logged(es, oEvent) == [es EXCEPT !.trace = Append(@, oEvent)]

set_last_command_result(es, nStatus) == [es EXCEPT !.last = nStatus]

\* shell_arg::get_arg.
get_arg(es, nArg) == IF nArg < Len(es.arg) THEN es.arg[nArg + 1] ELSE << >>

\* A lookup that asks the environment first.
get_value_variable_env_first(es, sVariable) ==
    IF sVariable \in DOMAIN es.env THEN es.env[sVariable]
    ELSE IF sVariable \in DOMAIN es.var THEN es.var[sVariable]
    ELSE << >>

\* shell_node_variable::get_value, shell_node_dollar_variable::get_value.
get_value_variable(es, sVariable) ==
    IF sVariable \in DOMAIN es.var THEN es.var[sVariable]
    ELSE IF sVariable \in DOMAIN es.env THEN es.env[sVariable]
    ELSE << >>

\* shell_node_session_extractor::get_value of the nodes followed.
get_value(pNode, es) ==
    CASE pNode.type \in {"SNT_VARIABLE", "SNT_DOLLAR_VARIABLE"} ->
           get_value_variable(es, pNode.m_sVariable)
      [] pNode.type \in {"SNT_ARG", "SNT_DOLLAR_ARG"} -> get_arg(es, pNode.m_nArg)

RECURSIVE str_text(_, _, _)
\* shell_node_str::expand: the expansions of the children, not split, one after
\* the other.
str_text(vChildren, i, es) ==
    IF i > Len(vChildren) THEN << >>
    ELSE (IF vChildren[i].type = "SNT_WORD" THEN vChildren[i].m_sText
          ELSE get_value(vChildren[i], es))
         \o str_text(vChildren, i + 1, es)

\* A child of a command expression as expand sees it in the session of es.
ChildIn(pChild, es) ==
    CASE pChild = NullNode -> NullChild
      [] pChild.type = "SNT_WORD" -> [kind |-> "word", text |-> pChild.m_sText]
      [] pChild.type = "SNT_STR_DOUBLE" ->
           [kind |-> "str", text |-> str_text(pChild.m_vChildren, 1, es)]
      [] OTHER -> [kind |-> "var", value |-> get_value(pChild, es)]

\* shell_node_command_expression::expand in the session of es.
expand_in(pExpression, es) ==
    expand([i \in 1..Len(pExpression.m_vChildren) |-> ChildIn(pExpression.m_vChildren[i], es)])

RECURSIVE concat_args(_, _)
\* The arguments from nBegin on with a blank between them.
concat_args(vArgs, nBegin) ==
    IF nBegin > Len(vArgs) THEN << >>
    ELSE IF nBegin = Len(vArgs) THEN vArgs[nBegin]
    ELSE vArgs[nBegin] \o <<" ">> \o concat_args(vArgs, nBegin + 1)

\* What command_echo::run writes.
echo_text(vArgs) ==
    IF vArgs # << >> /\ vArgs[1] = <<"-n">> THEN concat_args(vArgs, 2)
    ELSE concat_args(vArgs, 1) \o <<"\n">>

\* oSession.out() << sText.
Written(es, sText) == [es EXCEPT !.streams[es.out] = @ \o sText]

command_echo(vArgs, es) == Returns(Written(es, echo_text(vArgs)), SHELL_SUCCESS)

command_setvar(vArgs, es) ==
    IF Len(vArgs) # 2 THEN Returns(es, "SHELL_CMD_ERROR_SETVAR_PARAM_NUMBER")
    ELSE IF ~is_var(vArgs[1]) THEN Returns(es, "SHELL_CMD_ERROR_GETENV_VARIABLE_NAME_INVALID")
    ELSE Returns([es EXCEPT !.var = (vArgs[1] :> vArgs[2]) @@ @], SHELL_SUCCESS)

\* str_empty of command_test.cpp.
str_empty(s) == s = << >>

\* command_test::run on an expression of one of the forms -z s and -n s.
command_test(vArgs, es) ==
    IF vArgs = << >> THEN Returns(es, SHELL_SUCCESS)
    ELSE IF Len(vArgs) = 2 /\ vArgs[1] = <<"-z">>
    THEN Returns(es, IF str_empty(vArgs[2]) THEN SHELL_SUCCESS ELSE "SHELL_CMD_TEST_FALSE")
    ELSE IF Len(vArgs) = 2 /\ vArgs[1] = <<"-n">>
    THEN Returns(es, IF ~str_empty(vArgs[2]) THEN SHELL_SUCCESS ELSE "SHELL_CMD_TEST_FALSE")
    ELSE Returns(es, "SHELL_CMD_ERROR_TEST_MALFORMED_EXPRESSION")

\* The names shell::make_default_shell registers, of which the model runs
\* echo, setvar, test and fcall.
Commands == {<<"echo">>, <<"setvar">>, <<"test">>, <<"fcall">>, <<"eval">>}

RECURSIVE evaluate(_, _)
RECURSIVE evaluate_block_from(_, _, _)
RECURSIVE evaluate_subshell_from(_, _, _)
RECURSIVE evaluate_for_from(_, _, _, _, _)
RECURSIVE evaluate_loop_from(_, _, _, _)

\* The session of es again, after an evaluation in a session derived from it
\* ended in r: the tables a derived session shares (var, env, vt) are those of r.
SessionOf(es, r) ==
    [r EXCEPT !.in = es.in, !.out = es.out, !.last = es.last, !.arg = es.arg,
              !.pipes = es.pipes, !.calls = es.calls, !.depth = es.depth]

\* command_fcall::run evaluates the node the function table points to, which
\* is a node of the tree nTree.  Reading a node of a destroyed tree is
\* undefined: the evaluation is followed no further.
Dangling(es, sName) == sName \in DOMAIN es.owner /\ es.owner[sName] \in es.dead

Undefined(es, sWhat) == [Logged(es, [ev |-> "undefined", what |-> sWhat]) EXCEPT !.cut = TRUE]

\* command_fcall::run.
command_fcall(vArgs, es) ==
    IF vArgs = << >> THEN Returns(es, "SHELL_CMD_ERROR_FCALL_PARAM_NUMBER")
    ELSE IF vArgs[1] \notin DOMAIN es.vt
    THEN Returns(es, "SHELL_CMD_ERROR_FCALL_FUNCTION_NOT_FOUND")
    ELSE IF Dangling(es, vArgs[1]) THEN Undefined(es, "body of a destroyed tree")
    ELSE LET pSession == [es EXCEPT !.var = EmptyTable, !.arg = vArgs, !.depth = 0,
                                    !.last = SHELL_SUCCESS, !.calls = Append(@, vArgs[1])]
             r == evaluate(es.vt[vArgs[1]], pSession)
         IN  [SessionOf(es, r) EXCEPT !.var = es.var]

RECURSIVE concat_text(_, _)
\* command_eval::run: the arguments one after the other, nothing between them.
concat_text(vArgs, i) ==
    IF i > Len(vArgs) THEN << >> ELSE vArgs[i] \o concat_text(vArgs, i + 1)

\* eval of shell.cpp called by shell::run on the session of es, after
\* shell_parser::parse ended in r: the tree is the tree es.nTrees + 1, evaluated
\* and then destroyed; an exception of the parser leaves eval.
eval_in(r, es) ==
    IF r.err # NoError THEN [es EXCEPT !.sig = r.err]
    ELSE [evaluate(r.node, [es EXCEPT !.tree = es.nTrees + 1, !.nTrees = @ + 1])
             EXCEPT !.tree = es.tree, !.dead = @ \cup {es.nTrees + 1}]

\* What follows shell::run in command_eval::run: decrease_shell_depth, unless
\* an exception passes.
eval_returns(r) ==
    IF Stopped(r) THEN r ELSE [r EXCEPT !.depth = IF @ > 0 THEN @ - 1 ELSE @]

\* command_eval::run.
command_eval(vArgs, es) ==
    IF ~(es.depth + 1 <= SHELL_MAX_DEPTH) THEN Returns(es, "SHELL_ERROR_MAX_DEPTH_REACHED")
    ELSE eval_returns(eval_in(parse(concat_text(vArgs, 1)), [es EXCEPT !.depth = @ + 1]))

\* command::run of the command sName.
run(sName, vArgs, es) ==
    CASE sName = <<"echo">> -> command_echo(vArgs, es)
      [] sName = <<"eval">> -> command_eval(vArgs, es)
      [] sName = <<"setvar">> -> command_setvar(vArgs, es)
      [] sName = <<"test">> -> command_test(vArgs, es)
      [] sName = <<"fcall">> -> command_fcall(vArgs, es)

\* The record of a command in the trace.
CommandEvent(pNode, sName, vArgs, es) ==
    [ev |-> "cmd", name |-> sName, args |-> vArgs, found |-> sName \in Commands,
     in |-> es.in, out |-> es.out, loops |-> es.loops, pipes |-> es.pipes,
     calls |-> es.calls, node |-> pNode]

\* The command ran and returned, or threw: the exception of the parser is
\* caught and reported, and nStatus is what it was before run was called.
Ran(r) ==
    IF r.sig \in SyntaxStatuses /\ ~r.cut
    THEN LET normal == Returns(set_last_command_result([r EXCEPT !.sig = NoSignal],
                                                       SHELL_SUCCESS),
                               SHELL_SUCCESS)
         IN  Logged(normal, [ev |-> "msg_error_syntax_error", status |-> r.sig,
                             returned |-> normal.status, last |-> normal.last])
    ELSE IF Stopped(r) THEN r
    ELSE set_last_command_result(r, r.status)

\* shell_node_command::evaluate.  Reading vTokens[0] of an empty vector is
\* undefined: the evaluation is followed no further.
evaluate_command(pNode, es) ==
    LET vTokens == expand_in(pNode.m_pCommand, es)
    IN  IF vTokens = << >> THEN Undefined(es, "vTokens[0] of an empty vector")
        ELSE IF vTokens[1] \notin Commands
        THEN Returns(Logged(es, CommandEvent(pNode, vTokens[1], Tail(vTokens), es)),
                     "SHELL_ERROR_COMMAND_NOT_FOUND")
        ELSE Ran(run(vTokens[1], Tail(vTokens),
                     Logged(es, CommandEvent(pNode, vTokens[1], Tail(vTokens), es))))

\* shell_node_test::evaluate.
evaluate_test(pNode, es) ==
    LET vTokens == expand_in(pNode.m_pTest, es)
    IN  Ran(command_test(vTokens, Logged(es, CommandEvent(pNode, <<"test">>, vTokens, es))))

shell_node_null_command_evaluate(es) ==
    Returns(set_last_command_result(es, SHELL_SUCCESS), SHELL_SUCCESS)

\* shell_node_command_block::evaluate from child i on.
evaluate_block_from(vSubCommands, i, es) ==
    IF i > Len(vSubCommands) THEN Returns(es, es.last)
    ELSE LET r == evaluate(vSubCommands[i], es)
         IN  IF Stopped(r) THEN r ELSE evaluate_block_from(vSubCommands, i + 1, r)

\* A block that catches what its children throw.
evaluate_block_catching(pNode, es) ==
    [evaluate_block_from(pNode.m_vSubCommands, 1, es) EXCEPT !.sig = NoSignal]

evaluate_block(pNode, es) == evaluate_block_from(pNode.m_vSubCommands, 1, es)

\* shell_node_command_block_subshell::evaluate from child i on: each child is
\* evaluated in a subsession of its own, whose tables are copies.
evaluate_subshell_from(vSubCommands, i, es) ==
    IF i > Len(vSubCommands)
    THEN Returns(Logged(es, [ev |-> "subshell", returned |-> es.last, inside |-> es.inner,
                             last |-> es.last]),
                 es.last)
    ELSE LET r == evaluate(vSubCommands[i], [es EXCEPT !.last = SHELL_SUCCESS, !.depth = 0])
             back == [SessionOf(es, r) EXCEPT !.var = es.var, !.env = es.env, !.vt = es.vt,
                                              !.owner = es.owner, !.inner = r.last]
         IN  IF Stopped(r) THEN back ELSE evaluate_subshell_from(vSubCommands, i + 1, back)

evaluate_subshell(pNode, es) == evaluate_subshell_from(pNode.m_vSubCommands, 1, es)

\* shell_node_and::evaluate.
evaluate_and(pNode, es) ==
    LET nLeft == evaluate(pNode.m_pLeft, es)
    IN  IF Stopped(nLeft) THEN nLeft
        ELSE IF nLeft.status = SHELL_SUCCESS THEN evaluate(pNode.m_pRight, nLeft)
        ELSE nLeft

\* shell_node_or::evaluate.
evaluate_or(pNode, es) ==
    LET nLeft == evaluate(pNode.m_pLeft, es)
    IN  IF Stopped(nLeft) THEN nLeft
        ELSE IF nLeft.status # SHELL_SUCCESS THEN evaluate(pNode.m_pRight, nLeft)
        ELSE nLeft

\* The session of a side of pipe nPipe: make_pipe_left with the stream nStream
\* as standard output, make_pipe_right with the text sIn as standard input.
PipeSession(es, ps, nPipe, sSide, sIn, nOut) ==
    [ps EXCEPT !.in = sIn, !.out = nOut, !.last = SHELL_SUCCESS, !.depth = 0,
               !.pipes = Append(es.pipes, [id |-> nPipe, side |-> sSide])]

\* The right side of a pipe, evaluated after the left side ended in left.
evaluate_pipe_right(pNode, es, left, nPipe, nStream) ==
    IF Stopped(left) THEN SessionOf(es, left)
    ELSE SessionOf(es, evaluate(pNode.m_pRight,
                                PipeSession(es, left, nPipe, "right",
                                            left.streams[nStream], es.out)))

\* A pipe whose left side writes to the standard output of the session.
evaluate_pipe_shared_out(pNode, es) ==
    evaluate_pipe_right(
        pNode, es,
        evaluate(pNode.m_pLeft,
                 PipeSession(es, [es EXCEPT !.streams = Append(@, << >>), !.nPipes = @ + 1],
                             es.nPipes + 1, "left", es.in, es.out)),
        es.nPipes + 1, Len(es.streams) + 1)

\* shell_node_pipe::evaluate.
evaluate_pipe(pNode, es) ==
    evaluate_pipe_right(
        pNode, es,
        evaluate(pNode.m_pLeft,
                 PipeSession(es, [es EXCEPT !.streams = Append(@, << >>), !.nPipes = @ + 1],
                             es.nPipes + 1, "left", es.in, Len(es.streams) + 1)),
        es.nPipes + 1, Len(es.streams) + 1)

\* The branch of an if taken after the condition ended in nCondition.
evaluate_if_branch(pNode, nCondition) ==
    IF Stopped(nCondition) THEN nCondition
    ELSE IF nCondition.status = SHELL_SUCCESS THEN evaluate(pNode.m_pCaseIf, nCondition)
    ELSE IF pNode.m_pCaseElse # NullNode THEN evaluate(pNode.m_pCaseElse, nCondition)
    ELSE Returns(nCondition, nCondition.last)

\* shell_node_if::evaluate.
evaluate_if(pNode, es) == evaluate_if_branch(pNode, evaluate(pNode.m_pCondition, es))

\* shell_node_continue::evaluate, shell_node_break::evaluate: throw sSignal.
evaluate_throw(sSignal, es) ==
    [Logged(es, [ev |-> sSignal, loops |-> es.loops, via |-> es.via]) EXCEPT !.sig = sSignal]

\* The loop nLoop is left.
LoopExit(es, nLoop) == Returns(Logged(es, [ev |-> "exit", id |-> nLoop]), es.last)

\* An iteration of the loop nLoop begins: iteration nIteration of nItems (0 for
\* a while or until loop, whose condition is about to be tested).
LoopTurn(es, nLoop, nIteration, nItems) ==
    [Logged(es, [ev |-> "iter", id |-> nLoop, iter |-> nIteration, items |-> nItems])
        EXCEPT !.nIterations = @ + 1]

\* The body of the loop nLoop is evaluated.
InBody(es, nLoop) == [es EXCEPT !.loops = Append(@, nLoop), !.via = << >>]

\* After the body of a loop ended in r, in a loop entered in es.
OutOfBody(es, r) == [r EXCEPT !.loops = es.loops, !.via = es.via, !.sig = NoSignal]

\* The try block of a loop that catches continue_signal only.
Caught_break_ignored(es, r) ==
    IF r.cut \/ r.sig \notin {NoSignal, "continue", "break"} THEN [caught |-> FALSE, brk |-> FALSE, es |-> r]
    ELSE [caught |-> TRUE, brk |-> FALSE, es |-> OutOfBody(es, r)]

\* The try block of a loop: continue_signal is caught and the loop goes on,
\* break_signal is caught and the loop is left.
Caught(es, r) ==
    IF r.cut \/ r.sig \notin {NoSignal, "continue", "break"} THEN [caught |-> FALSE, brk |-> FALSE, es |-> r]
    ELSE [caught |-> TRUE, brk |-> r.sig = "break", es |-> OutOfBody(es, r)]

\* What follows the try block of iteration i of a for loop.
evaluate_for_next(pNode, c, vSequence, i, nLoop) ==
    IF ~c.caught THEN c.es
    ELSE IF c.brk THEN LoopExit(c.es, nLoop)
    ELSE evaluate_for_from(pNode, c.es, vSequence, i + 1, nLoop)

\* The loop of shell_node_for::evaluate from item i on.
evaluate_for_from(pNode, es, vSequence, i, nLoop) ==
    IF i > Len(vSequence) THEN LoopExit(es, nLoop)
    ELSE IF es.nIterations >= MaxIterations THEN [es EXCEPT !.cut = TRUE]
    ELSE evaluate_for_next(
             pNode,
             Caught(es, evaluate(pNode.m_pIterative,
                                 InBody([LoopTurn(es, nLoop, i, Len(vSequence))
                                            EXCEPT !.var = (pNode.m_sVariable :> vSequence[i]) @@ @],
                                        nLoop))),
             vSequence, i, nLoop)

\* shell_node_for::evaluate.
evaluate_for(pNode, es) ==
    evaluate_for_from(pNode, [es EXCEPT !.nLoops = @ + 1],
                      expand_in(pNode.m_pSequence, es), 1, es.nLoops + 1)

\* What follows the try block of an iteration of a while or until loop.
evaluate_loop_next(pNode, c, nLoop, nIteration) ==
    IF ~c.caught THEN c.es
    ELSE IF c.brk THEN LoopExit(c.es, nLoop)
    ELSE evaluate_loop_from(pNode, c.es, nLoop, nIteration + 1)

\* The body of a while or until loop, after the condition ended in nCondition.
evaluate_loop_body(pNode, es, nCondition, nLoop, nIteration) ==
    IF Stopped(nCondition) THEN nCondition
    ELSE IF (nCondition.status = SHELL_SUCCESS) = (pNode.type = "SNT_UNTIL")
    THEN LoopExit(nCondition, nLoop)
    ELSE evaluate_loop_next(
             pNode,
             Caught(es, evaluate(pNode.m_pIterative, InBody(nCondition, nLoop))),
             nLoop, nIteration)

\* The loop of shell_node_while::evaluate and shell_node_until::evaluate.
evaluate_loop_from(pNode, es, nLoop, nIteration) ==
    IF es.nIterations >= MaxIterations THEN [es EXCEPT !.cut = TRUE]
    ELSE evaluate_loop_body(
             pNode, es,
             evaluate(pNode.m_pCondition, LoopTurn(es, nLoop, nIteration, 0)),
             nLoop, nIteration)

evaluate_while(pNode, es) ==
    evaluate_loop_from(pNode, [es EXCEPT !.nLoops = @ + 1], es.nLoops + 1, 1)

evaluate_until(pNode, es) ==
    evaluate_loop_from(pNode, [es EXCEPT !.nLoops = @ + 1], es.nLoops + 1, 1)

\* A definition that runs the body it binds.
evaluate_function_running_body(pNode, es) ==
    LET vName == expand_in(pNode.m_pName, es)
        r == evaluate(pNode.m_pBody, es)
    IN  Returns(Logged([r EXCEPT !.vt = (vName[1] :> pNode.m_pBody) @@ @,
                                 !.owner = (vName[1] :> es.tree) @@ @],
                       [ev |-> "function", name |-> vName[1], body |-> pNode.m_pBody,
                        nBefore |-> Len(es.trace), status |-> SHELL_SUCCESS,
                        vt |-> (vName[1] :> pNode.m_pBody) @@ r.vt, calls |-> es.calls]),
                SHELL_SUCCESS)

\* shell_node_function::evaluate.
evaluate_function(pNode, es) ==
    LET vName == expand_in(pNode.m_pName, es)
    IN  IF Len(vName) # 1 \/ ~is_var(vName[1])
        THEN Returns(es, "SHELL_ERROR_SYNTAX_ERROR_INVALID_FUNCTION_NAME")
        ELSE Returns(Logged([es EXCEPT !.vt = (vName[1] :> pNode.m_pBody) @@ @,
                                      !.owner = (vName[1] :> es.tree) @@ @],
                            [ev |-> "function", name |-> vName[1], body |-> pNode.m_pBody,
                             nBefore |-> Len(es.trace), status |-> SHELL_SUCCESS,
                             vt |-> (vName[1] :> pNode.m_pBody) @@ es.vt, calls |-> es.calls]),
                     SHELL_SUCCESS)

\* The evaluate of the type of pNode.
evaluate_node(pNode, es) ==
    CASE pNode.type = "SNT_COMMAND" -> evaluate_command(pNode, es)
      [] pNode.type = "SNT_NULL_COMMAND" -> shell_node_null_command_evaluate(es)
      [] pNode.type = "SNT_COMMAND_BLOCK" -> evaluate_block(pNode, es)
      [] pNode.type = "SNT_COMMAND_BLOCK_SUBSHELL" -> evaluate_subshell(pNode, es)
      [] pNode.type = "SNT_BACKGROUND" -> Returns(es, SHELL_SUCCESS)
      [] pNode.type = "SNT_AND" -> evaluate_and(pNode, es)
      [] pNode.type = "SNT_OR" -> evaluate_or(pNode, es)
      [] pNode.type = "SNT_PIPE" -> evaluate_pipe(pNode, es)
      [] pNode.type = "SNT_TEST" -> evaluate_test(pNode, es)
      [] pNode.type = "SNT_IF" -> evaluate_if(pNode, es)
      [] pNode.type = "SNT_CONTINUE" -> evaluate_throw("continue", es)
      [] pNode.type = "SNT_BREAK" -> evaluate_throw("break", es)
      [] pNode.type = "SNT_FOR" -> evaluate_for(pNode, es)
      [] pNode.type = "SNT_WHILE" -> evaluate_while(pNode, es)
      [] pNode.type = "SNT_UNTIL" -> evaluate_until(pNode, es)
      [] pNode.type = "SNT_FUNCTION" -> evaluate_function(pNode, es)

\* pNode->evaluate(oSession).  Calling evaluate through a null pointer is
\* undefined: the evaluation is followed no further.
evaluate(pNode, es) ==
    IF pNode = NullNode THEN [es EXCEPT !.cut = TRUE]
    ELSE [evaluate_node(pNode, [es EXCEPT !.via = Append(@, pNode.type)]) EXCEPT !.via = es.via]

(***************************************************************************)
(* Programs handed to shell::run, and trees built with the constructors of *)
(* shell_node.h and handed to evaluate.                                    *)
(***************************************************************************)
Programs ==
    {<<"echo", " ", "a">>,
     <<"echo", " ", "a", ";", " ", "echo", " ", "b">>,
     <<"nope", ";", " ", "echo", " ", "a">>,
     <<"echo", " ", "a", ";", " ", "nope", ";", " ", "echo", " ", "b">>,
     <<"nope", " ", "&", "&", " ", "echo", " ", "a">>,
     <<"nope", " ", "|", "|", " ", "echo", " ", "a">>,
     <<"echo", " ", "a", " ", "&", "&", " ", "nope", ";", " ", "echo", " ", "b">>,
     <<"(", "nope", ")", ";", " ", "echo", " ", "a">>,
     <<"echo", " ", "a", " ", "|", " ", "echo", " ", "b">>,
     <<"echo", " ", "-n", " ", "a", " ", "|", " ", "echo", " ", "b", ";", " ", "echo", " ",
       "c">>,
     <<"echo", " ", "a", " ", "|", " ", "echo", " ", "b", " ", "|", " ", "echo", " ", "c">>,
     <<"(", "echo", " ", "a", ";", " ", "echo", " ", "b", ")", " ", "|", " ", "echo", " ",
       "c">>,
     <<"echo", " ", "a", " ", "|", " ", "(", "echo", " ", "b", ";", " ", "echo", " ", "c",
       ")">>,
     <<"echo", " ", "a", " ", "|", " ", "nope">>,
     <<"for", " ", "x", " ", "in", " ", "a", " ", "b", ";", " ", "do", " ", "echo", " ",
       "$", "x", ";", " ", "done">>,
     <<"for", " ", "x", " ", "in", " ", "a", " ", "b", ";", " ", "do", " ", "echo", " ",
       "$", "x", ";", " ", "break", ";", " ", "echo", " ", "c", ";", " ", "done", ";", " ",
       "echo", " ", "d">>,
     <<"for", " ", "x", " ", "in", " ", "a", " ", "b", ";", " ", "do", " ", "echo", " ",
       "$", "x", ";", " ", "continue", ";", " ", "echo", " ", "c", ";", " ", "done", ";",
       " ", "echo", " ", "d">>,
     <<"for", " ", "x", " ", "in", " ", "a", " ", "b", ";", " ", "do", " ", "echo", " ",
       "$", "x", " ", "|", " ", "break", ";", " ", "echo", " ", "c", ";", " ", "done", ";",
       " ", "echo", " ", "d">>,
     <<"for", " ", "x", " ", "in", " ", "a", " ", "b", ";", " ", "do", " ", "for", " ",
       "y", " ", "in", " ", "c", " ", "d", ";", " ", "do", " ", "echo", " ", "$", "y", ";",
       " ", "break", ";", " ", "done", ";", " ", "echo", " ", "$", "x", ";", " ", "done">>,
     <<"for", " ", "x", " ", "in", " ", "a", " ", "b", ";", " ", "do", " ", "for", " ",
       "y", " ", "in", " ", "c", " ", "d", ";", " ", "do", " ", "echo", " ", "$", "y", " ",
       "&", "&", " ", "break", ";", " ", "echo", " ", "e", ";", " ", "done", ";", " ",
       "echo", " ", "$", "x", ";", " ", "done">>,
     <<"for", " ", "x", " ", "in", " ", "a", " ", "b", ";", " ", "do", " ", "for", " ",
       "y", " ", "in", " ", "c", " ", "d", ";", " ", "do", " ", "nope", " ", "|", "|", " ",
       "continue", ";", " ", "echo", " ", "e", ";", " ", "done", ";", " ", "echo", " ",
       "$", "x", ";", " ", "done">>,
     <<"for", " ", "x", " ", "in", " ", "a", " ", "b", ";", " ", "do", " ", "for", " ",
       "y", " ", "in", " ", "c", " ", "d", ";", " ", "do", " ", "echo", " ", "$", "y", ";",
       " ", "continue", ";", " ", "echo", " ", "e", ";", " ", "done", ";", " ", "break",
       ";", " ", "done", ";", " ", "echo", " ", "d">>,
     <<"for", " ", "x", " ", "in", " ", "a", " ", "b", ";", " ", "do", " ", "while", " ",
       "[", " ", "-z", " ", "\"", "$", "s", "\"", " ", "]", ";", " ", "do", " ", "setvar",
       " ", "s", " ", "x", ";", " ", "break", ";", " ", "echo", " ", "c", ";", " ", "done",
       ";", " ", "echo", " ", "$", "x", ";", " ", "done">>,
     <<"while", " ", "[", " ", "-z", " ", "\"", "$", "s", "\"", " ", "]", ";", " ", "do",
       " ", "setvar", " ", "s", " ", "x", ";", " ", "echo", " ", "a", ";", " ", "continue",
       ";", " ", "echo", " ", "c", ";", " ", "done", ";", " ", "echo", " ", "d">>,
     <<"while", " ", "[", " ", "-z", " ", "\"", "$", "s", "\"", " ", "]", ";", " ", "do",
       " ", "echo", " ", "a", ";", " ", "break", ";", " ", "echo", " ", "c", ";", " ",
       "done", ";", " ", "echo", " ", "d">>,
     <<"while", " ", "[", " ", "-n", " ", "\"", "$", "s", "\"", " ", "]", ";", " ", "do",
       " ", "echo", " ", "a", ";", " ", "done", ";", " ", "echo", " ", "d">>,
     <<"until", " ", "[", " ", "-n", " ", "\"", "$", "s", "\"", " ", "]", ";", " ", "do",
       " ", "setvar", " ", "s", " ", "x", ";", " ", "continue", ";", " ", "echo", " ", "c",
       ";", " ", "done", ";", " ", "echo", " ", "d">>,
     <<"until", " ", "[", " ", "-n", " ", "\"", "$", "s", "\"", " ", "]", ";", " ", "do",
       " ", "echo", " ", "a", ";", " ", "break", ";", " ", "done", ";", " ", "echo", " ",
       "d">>,
     <<"until", " ", "[", " ", "-n", " ", "\"", "$", "s", "\"", " ", "]", ";", " ", "do",
       " ", "echo", " ", "a", " ", "&", "&", " ", "break", ";", " ", "echo", " ", "c", ";",
       " ", "done", ";", " ", "echo", " ", "d">>,
     <<"function", " ", "f", " ", "{", " ", "echo", " ", "a", ";", " ", "}">>,
     <<"function", " ", "f", " ", "{", " ", "echo", " ", "a", ";", " ", "}", ";", " ",
       "echo", " ", "b">>,
     <<"function", " ", "f", " ", "{", " ", "echo", " ", "a", ";", " ", "}", ";", " ",
       "fcall", " ", "f">>,
     <<"function", " ", "f", " ", "{", " ", "echo", " ", "a", ";", " ", "}", ";", " ",
       "function", " ", "f", " ", "{", " ", "echo", " ", "b", ";", " ", "}", ";", " ",
       "fcall", " ", "f">>,
     <<"function", " ", "f", " ", "{", " ", "echo", " ", "a", ";", " ", "}", ";", " ",
       "fcall", " ", "f", ";", " ", "fcall", " ", "f">>,
     <<"function", " ", "f", " ", "{", " ", "echo", " ", "$", "1", ";", " ", "}", ";", " ",
       "fcall", " ", "f", " ", "a">>,
     <<"function", " ", "f", " ", "{", " ", "echo", " ", "a", ";", " ", "}", ";", " ",
       "fcall", " ", "f", " ", "|", " ", "echo", " ", "b">>,
     <<"fcall", " ", "f">>,
     <<"for", " ", "x", " ", "in", " ", "a", " ", "b", ";", " ", "do", " ", "function",
       " ", "f", " ", "{", " ", "echo", " ", "$", "x", ";", " ", "}", ";", " ", "fcall",
       " ", "f", ";", " ", "done">>,
     <<"$", "u">>,
     <<"$", "u", ";", " ", "echo", " ", "a">>,
     <<"echo", " ", "a", ";", " ", "nope">>,
     <<"fcall", " ", "f", ";", " ", "nope">>,
     <<"(", "fcall", " ", "f", ")", " ", "|", "|", " ", "echo", " ", "a">>,
     <<"(", "fcall", " ", "f", ")", ";", " ", "echo", " ", "a">>,
     <<"echo", " ", "a", ";", " ", "(", "fcall", " ", "f", ")">>,
     <<"eval", " ", "\"", "(", "\"", " ", "|", "|", " ", "echo", " ", "a">>,
     <<"eval", " ", "\"", "echo", " ", "a", "\"">>,
     <<"eval", " ", "\"", "fcall", " ", "f", "\"", " ", "|", "|", " ", "echo", " ", "a">>,
     <<"eval", " ", "\"", "function", " ", "f", " ", "{", " ", "echo", " ", "a", ";", " ",
       "}", "\"", ";", " ", "fcall", " ", "f">>,
     <<"eval", " ", "\"", "(", "\"", ";", " ", "eval", " ", "\"", "echo", " ", "a", "\"">>,
     <<"(", "echo", " ", "a">>,
     <<"echo", " ", "a", ";", " ", "break">>}

Word(sText) == [type |-> "SNT_WORD", m_sText |-> <<sText>>]

Variable(sVariable) == [type |-> "SNT_VARIABLE", m_sVariable |-> <<sVariable>>]

Expression(vChildren) == [type |-> "SNT_COMMAND_EXPRESSION", m_vChildren |-> vChildren]

Command(vChildren) == [type |-> "SNT_COMMAND", m_pCommand |-> Expression(vChildren)]

If(pCondition, pCaseIf, pCaseElse) ==
    [type |-> "SNT_IF", m_pCondition |-> pCondition, m_pCaseIf |-> pCaseIf,
     m_pCaseElse |-> pCaseElse]

For(sVariable, vSequence, pIterative) ==
    [type |-> "SNT_FOR", m_sVariable |-> <<sVariable>>,
     m_pSequence |-> Expression(vSequence), m_pIterative |-> pIterative]

Break == [type |-> "SNT_BREAK"]

Continue == [type |-> "SNT_CONTINUE"]

\* for x in a b; do for y in c d; do <pInner>; echo e; done; echo $x; done
TwoLoops(pInner) ==
    For("x", <<Word("a"), NullNode, Word("b")>>,
        shell_node_command_block(
            <<For("y", <<Word("c"), NullNode, Word("d")>>,
                  shell_node_command_block(<<pInner, Command(<<Word("echo"), NullNode, Word("e")>>)>>)),
              Command(<<Word("echo"), NullNode, Variable("x")>>)>>))

Trees ==
    {TwoLoops(If(Command(<<Word("echo"), NullNode, Variable("y")>>), Break, NullNode)),
     TwoLoops(If(Command(<<Word("nope")>>), Command(<<Word("echo")>>), Continue)),
     TwoLoops(If(Command(<<Word("echo")>>), Continue, Break)),
     TwoLoops(shell_node_command_block(<<Command(<<Word("echo"), NullNode, Variable("y")>>), Break>>)),
     TwoLoops([shell_node_command_block(<<Continue>>) EXCEPT !.fromBrackets = TRUE])}

InitRun ==
    /\ stack = <<RootFrame>>
    /\ event = NoEvent
    /\ src \in {[kind |-> "program", text |-> s, m_bStopOnCommandNotFound |-> b] :
                    s \in Programs, b \in BOOLEAN}
               \cup {[kind |-> "tree", node |-> n, m_bStopOnCommandNotFound |-> b] :
                    n \in Trees, b \in BOOLEAN}
    /\ out = NoOut

\* What is kept of the state es in which the evaluation of pNode ends.
RunOut(pNode, es) ==
    [kind |-> "run", thrown |-> es.sig, status |-> es.status, trace |-> es.trace,
     streams |-> es.streams, vt |-> es.vt, node |-> pNode, cut |-> es.cut,
     last |-> es.last, depth |-> es.depth, owner |-> es.owner, dead |-> es.dead,
     outcome |-> "returns"]

\* eval of shell.cpp after shell_parser::parse ended in r: an exception of the
\* parser leaves eval, a tree is evaluated.
eval(r) ==
    IF r.err # NoError
    THEN [kind |-> "run", thrown |-> r.err, status |-> r.err, trace |-> << >>,
          streams |-> EvalStart.streams, vt |-> EmptyTable, node |-> NullNode, cut |-> FALSE,
          last |-> EvalStart.last, depth |-> EvalStart.depth, owner |-> EmptyTable,
          dead |-> {}, outcome |-> "returns"]
    ELSE [RunOut(r.node, evaluate(r.node, EvalStart)) EXCEPT !.dead = @ \cup {EvalStart.tree}]

\* What a run that did something undefined can end as.
Outcomes(o) ==
    IF \E i \in 1..Len(o.trace) : o.trace[i].ev = "undefined" THEN {"returns", "crashes"}
    ELSE {"returns"}

Ended(o) == {[o EXCEPT !.outcome = sOutcome] : sOutcome \in Outcomes(o)}

\* shell::run on a program.
Run ==
    /\ src.kind = "program"
    /\ out = NoOut
    /\ out' \in Ended(eval(parse(src.text)))
    /\ UNCHANGED <<sessVars, src>>

\* evaluate on a tree.
Evaluate ==
    /\ src.kind = "tree"
    /\ out = NoOut
    /\ out' \in Ended(RunOut(src.node, evaluate(src.node, EvalStart)))
    /\ UNCHANGED <<sessVars, src>>

RunNext ==
    \/ Run
    \/ Evaluate

SpecRun == InitRun /\ [][RunNext]_vars

\* ---------------------------------------------------------------------------
\* Break and continue in the loops of shell_node_evaluate.cpp, read from the
\* trace of a run.

\* The events of the run that ended in out.
Trace == IF out.kind = "run" THEN out.trace ELSE << >>

\* The loop activation in which the signal of event e was thrown.
InnerLoop(e) == e.loops[Len(e.loops)]

\* e is an event of the activation nLoop of a loop: the start of one of its
\* iterations, or a command or a signal of its body or of something inside.
OfLoop(e, nLoop) ==
    \/ e.ev = "iter" /\ e.id = nLoop
    \/ e.ev \in {"cmd", "break", "continue"} /\ \E k \in 1..Len(e.loops) : e.loops[k] = nLoop

\* The last iteration of the activation nLoop that began before event i.
LastTurn(i, nLoop) ==
    Trace[CHOOSE j \in 1..i :
              /\ Trace[j].ev = "iter" /\ Trace[j].id = nLoop
              /\ \A k \in (j + 1)..i : ~(Trace[k].ev = "iter" /\ Trace[k].id = nLoop)]

\* Event i is a break thrown in a loop body: the very next event is the exit
\* of that loop, and nothing of that loop happens afterwards.
BreakLeaves(i) ==
    /\ i < Len(Trace)
    /\ Trace[i + 1] = [ev |-> "exit", id |-> InnerLoop(Trace[i])]
    /\ \A j \in (i + 1)..Len(Trace) : ~OfLoop(Trace[j], InnerLoop(Trace[i]))

\* Event i is a continue thrown in a loop body: the very next event is the
\* start of the next iteration of that loop (the next item of a for loop, the
\* test of the condition of a while or until loop) or, after the last item of a
\* for loop, the exit of that loop.
ContinueGoesOn(i) ==
    LET nLoop == InnerLoop(Trace[i])
        oTurn == LastTurn(i, nLoop)
    IN  /\ i < Len(Trace)
        /\ IF oTurn.items > 0 /\ oTurn.iter = oTurn.items
           THEN Trace[i + 1] = [ev |-> "exit", id |-> nLoop]
           ELSE Trace[i + 1] = [ev |-> "iter", id |-> nLoop, iter |-> oTurn.iter + 1,
                               items |-> oTurn.items]

\* C14: a break raised in the body of a for, while or until loop ends that
\* loop at once (no further command of the body, no further iteration) and the
\* evaluation goes on after the loop; a continue skips the rest of the body for
\* the current iteration only and the loop goes to its next item or tests its
\* condition again. No signal leaves the run.
C14_BreakAndContinue ==
    out.kind = "run" =>
        /\ out.thrown \notin {"break", "continue"}
        /\ \A i \in 1..Len(Trace) :
            /\ (Trace[i].ev = "break" /\ Trace[i].loops # << >>) => BreakLeaves(i)
            /\ (Trace[i].ev = "continue" /\ Trace[i].loops # << >>) => ContinueGoesOn(i)

\* A run in which a continue led to the next iteration of its loop, whose
\* body ran again, and a break left a loop after which a command ran.
C14_Witness ==
    /\ out.kind = "run"
    /\ \E i \in 1..Len(Trace) :
        /\ Trace[i].ev = "continue"
        /\ i + 2 <= Len(Trace)
        /\ Trace[i + 1].ev = "iter"
        /\ Trace[i + 2].ev = "cmd" /\ Trace[i + 2].found
    /\ \E i \in 1..Len(Trace) :
        /\ Trace[i].ev = "break"
        /\ i + 2 <= Len(Trace)
        /\ Trace[i + 1].ev = "exit"
        /\ Trace[i + 2].ev = "cmd" /\ Trace[i + 2].loops = << >>

\* ---------------------------------------------------------------------------
\* Signals thrown below a construct that is no loop.

\* The constructs a signal can be thrown through that are no loops.
NotLoops == {"SNT_COMMAND_BLOCK", "SNT_IF", "SNT_AND", "SNT_OR"}

\* Event i is a signal thrown in a loop body from inside a construct of that
\* body that is no loop: e.via lists the nodes from the body (first) down to
\* the node that throws (last).
ThrownThrough(i, sType) ==
    /\ Trace[i].ev \in {"break", "continue"}
    /\ Trace[i].loops # << >>
    /\ \E k \in 2..(Len(Trace[i].via) - 1) : Trace[i].via[k] = sType

\* e is where the activation nLoop of a loop goes on or ends: the start of an
\* iteration, its exit, or a signal thrown in its own body.
StepOfLoop(e, nLoop) ==
    \/ e.ev \in {"iter", "exit"} /\ e.id = nLoop
    \/ e.ev \in {"break", "continue"} /\ e.loops # << >> /\ InnerLoop(e) = nLoop

\* After event i the activation nLoop goes on as its items or its condition
\* say: its next step is the start of its next iteration (the exit, after the
\* last item of a for loop), or a signal thrown in its own body.
KeepsIterating(i, nLoop) ==
    LET oTurn == LastTurn(i, nLoop)
    IN  \E j \in (i + 1)..Len(Trace) :
            /\ StepOfLoop(Trace[j], nLoop)
            /\ \A k \in (i + 1)..(j - 1) : ~StepOfLoop(Trace[k], nLoop)
            /\ \/ Trace[j].ev \in {"break", "continue"}
               \/ IF oTurn.items > 0 /\ oTurn.iter = oTurn.items
                  THEN Trace[j] = [ev |-> "exit", id |-> nLoop]
                  ELSE Trace[j] = [ev |-> "iter", id |-> nLoop, iter |-> oTurn.iter + 1,
                                   items |-> oTurn.items]

\* C15: a break or continue thrown inside a command block, an if branch or an
\* operand of && or || in a loop body reaches the nearest enclosing loop as it
\* was thrown (the break leaves that loop, the continue starts its next
\* iteration) and is consumed there: every loop around that loop goes on with
\* its own iterations.
C15_SignalPassesThrough ==
    out.kind = "run" =>
        \A i \in 1..Len(Trace) :
            (\E sType \in NotLoops : ThrownThrough(i, sType)) =>
                /\ IF Trace[i].ev = "break" THEN BreakLeaves(i) ELSE ContinueGoesOn(i)
                /\ \A k \in 1..(Len(Trace[i].loops) - 1) : KeepsIterating(i, Trace[i].loops[k])

\* A run of two nested loops in which a signal thrown in an if branch of the
\* inner body ended the inner loop or its iteration, after which the outer body
\* went on and the outer loop began its second iteration.
C15_Witness ==
    /\ out.kind = "run"
    /\ \E i \in 1..Len(Trace) :
        /\ ThrownThrough(i, "SNT_IF")
        /\ Len(Trace[i].loops) = 2
        /\ \E j \in (i + 1)..Len(Trace), k \in (i + 1)..Len(Trace) :
            /\ j < k
            /\ Trace[j].ev = "cmd" /\ Trace[j].loops = <<Trace[i].loops[1]>>
            /\ Trace[k] = [ev |-> "iter", id |-> Trace[i].loops[1], iter |-> 2, items |-> 2]

\* ---------------------------------------------------------------------------
\* The streams of the two sides of a pipe, read from the trace of a run.

\* The buffer (oStdOut of shell_node_pipe::evaluate) of the pipe nPipe among
\* the streams of the run; stream 1 is the standard output of the run.
BufferOf(nPipe) == nPipe + 1

\* Event i is a command of side sSide of the pipe nPipe.
OnSide(i, nPipe, sSide) ==
    /\ Trace[i].ev = "cmd"
    /\ \E k \in 1..Len(Trace[i].pipes) : Trace[i].pipes[k] = [id |-> nPipe, side |-> sSide]

\* The pipes of the run.
PipesOfRun == {nPipe \in 1..Len(Trace) : \E i \in 1..Len(Trace) : OnSide(i, nPipe, "left")}

\* The innermost pipe of which the command e is on side sSide, 0 if none.
InnermostPipe(e, sSide) ==
    LET S == {k \in 1..Len(e.pipes) : e.pipes[k].side = sSide}
    IN  IF S = {} THEN 0
        ELSE e.pipes[CHOOSE k \in S : \A l \in S : l <= k].id

\* What the command e wrote to the stream nStream.
WrittenBy(e, nStream) ==
    IF e.ev = "cmd" /\ e.name = <<"echo">> /\ e.out = nStream THEN echo_text(e.args)
    ELSE << >>

\* What the first n events of the run wrote to the stream nStream.
RECURSIVE WrittenTo(_, _)
WrittenTo(n, nStream) ==
    IF n = 0 THEN << >> ELSE WrittenTo(n - 1, nStream) \o WrittenBy(Trace[n], nStream)

\* C16: in a pipe every command of the right side runs after every command
\* of the left side; the standard output of a command on a left side is the
\* buffer of its pipe, never the standard output of the run, and the standard
\* input of a command on a right side is all that was written to the buffer of
\* its pipe; the standard output of the run holds what the commands outside
\* left sides wrote.
C16_PipeIsSequential ==
    out.kind = "run" =>
        /\ \A nPipe \in PipesOfRun : \A i, j \in 1..Len(Trace) :
               (OnSide(i, nPipe, "left") /\ OnSide(j, nPipe, "right")) => i < j
        /\ \A i \in 1..Len(Trace) : Trace[i].ev = "cmd" =>
            /\ Trace[i].out = IF InnermostPipe(Trace[i], "left") = 0 THEN 1
                              ELSE BufferOf(InnermostPipe(Trace[i], "left"))
            /\ Trace[i].in = IF InnermostPipe(Trace[i], "right") = 0 THEN << >>
                             ELSE WrittenTo(Len(Trace), BufferOf(InnermostPipe(Trace[i], "right")))
        /\ \A nStream \in 1..Len(out.streams) : out.streams[nStream] = WrittenTo(Len(Trace), nStream)

\* A pipe whose left side wrote two lines, which a command of its right side
\* has as standard input, while the standard output of the run holds what that
\* command wrote and nothing else.
C16_Witness ==
    /\ out.kind = "run"
    /\ \E i, j \in 1..Len(Trace) :
        /\ OnSide(i, 1, "left") /\ OnSide(j, 1, "right")
        /\ WrittenBy(Trace[i], BufferOf(1)) # << >>
        /\ Trace[j].in = out.streams[BufferOf(1)]
        /\ Len(Trace[j].in) = 4
        /\ WrittenBy(Trace[j], 1) = out.streams[1]

\* ---------------------------------------------------------------------------
\* Function definitions and their calls, read from the trace of a run.

\* The command nodes of the tree pNode.
RECURSIVE CommandsOf(_)
CommandsOf(pNode) ==
    IF pNode = NullNode THEN {}
    ELSE IF pNode.type = "SNT_COMMAND" THEN {pNode}
    ELSE LET vBelow == Children(pNode)
         IN  UNION {CommandsOf(vBelow[k]) : k \in 1..Len(vBelow)}

\* Event i is the definition of the function sName.
Defines(i, sName) == Trace[i].ev = "function" /\ Trace[i].name = sName

\* Event i is a call of the function sName by fcall.
Calls(i, sName) ==
    /\ Trace[i].ev = "cmd" /\ Trace[i].name = <<"fcall">>
    /\ Trace[i].args # << >> /\ Trace[i].args[1] = sName

\* Event j is a command run in a call of a function: the call is an earlier
\* fcall of a function defined before it, and the command is one of the body
\* given by the last definition before that call.
RunsInCall(j) ==
    LET sName == Trace[j].calls[Len(Trace[j].calls)]
    IN  \E i \in 1..(j - 1), d \in 1..(j - 1) :
            /\ d < i
            /\ Calls(i, sName) /\ Len(Trace[i].calls) = Len(Trace[j].calls) - 1
            /\ \A k \in (i + 1)..(j - 1) : ~Calls(k, sName)
            /\ Defines(d, sName)
            /\ \A k \in (d + 1)..(i - 1) : ~Defines(k, sName)
            /\ Trace[j].node \in CommandsOf(Trace[d].body)

\* C17: the evaluation of a function definition with a valid name binds the
\* name to the body in the function table, whatever was bound to it, returns
\* success and runs nothing (no event of the run lies between its beginning and
\* its end); a command of a body runs only in a call by fcall, and it is a
\* command of the body bound last.
C17_DefinitionBindsOnly ==
    out.kind = "run" =>
        \A i \in 1..Len(Trace) :
            /\ Trace[i].ev = "function" =>
                /\ Trace[i].nBefore = i - 1
                /\ Trace[i].status = SHELL_SUCCESS
                /\ Trace[i].name \in DOMAIN Trace[i].vt
                /\ Trace[i].vt[Trace[i].name] = Trace[i].body
            /\ (Trace[i].ev = "cmd" /\ Trace[i].calls # << >>) => RunsInCall(i)

\* A run in which a function was defined twice with different bodies and
\* then called: the command of the second body ran, in the call.
C17_Witness ==
    /\ out.kind = "run"
    /\ \E d, e, i, j \in 1..Len(Trace) :
        /\ d < e /\ e < i /\ i < j
        /\ Defines(d, <<"f">>) /\ Defines(e, <<"f">>)
        /\ Trace[d].body # Trace[e].body
        /\ Calls(i, <<"f">>)
        /\ Trace[j].ev = "cmd" /\ Trace[j].calls = <<<<"f">>>>
        /\ Trace[j].node \in CommandsOf(Trace[e].body)
        /\ Trace[j].node \notin CommandsOf(Trace[d].body)
        /\ out.vt[<<"f">>] = Trace[e].body

\* ---------------------------------------------------------------------------
\* The setting m_bStopOnCommandNotFound of the shell.

\* Event i is a command whose name is not registered.
NotFound(i) == Trace[i].ev = "cmd" /\ ~Trace[i].found

\* C19: while m_bStopOnCommandNotFound is true, no command runs after a
\* command whose name is not registered.
C19_StopsAtCommandNotFound ==
    (out.kind = "run" /\ src.m_bStopOnCommandNotFound) =>
        \A i, j \in 1..Len(Trace) : (NotFound(i) /\ i < j) => Trace[j].ev # "cmd"

\* ---------------------------------------------------------------------------
\* Variable lookup after assignments: setenv and setvar fill the tables of a
\* session, then a program that echoes a variable is parsed and evaluated.

\* command_setenv::run.
command_setenv(vArgs, es) ==
    IF Len(vArgs) # 2 THEN Returns(es, "SHELL_CMD_ERROR_SETENV_PARAM_NUMBER")
    ELSE IF ~is_var(vArgs[1]) THEN Returns(es, "SHELL_CMD_ERROR_GETENV_VARIABLE_NAME_INVALID")
    ELSE Returns([es EXCEPT !.env = (vArgs[1] :> vArgs[2]) @@ @], SHELL_SUCCESS)

\* The names and the values assigned.
LookupNames == {<<"x">>, <<"y">>}

LookupValues == {<<"a">>, <<"b">>, << >>}

\* The ways a program writes the variable sName.
LookupForms == {"$name", "${name}", "\"$name\"", "\"${name}\""}

LookupSource(sName, sForm) ==
    <<"echo", " ">> \o
    (CASE sForm = "$name" -> <<"$">> \o sName
       [] sForm = "${name}" -> <<"$", "{">> \o sName \o <<"}">>
       [] sForm = "\"$name\"" -> <<"\"", "$">> \o sName \o <<"\"">>
       [] sForm = "\"${name}\"" -> <<"\"", "$", "{">> \o sName \o <<"}", "\"">>)

\* The session whose tables are those of src.
LookupSession == [EvalStart EXCEPT !.var = src.var, !.env = src.env]

InitLookup ==
    /\ stack = <<RootFrame>>
    /\ event = NoEvent
    /\ src = [kind |-> "lookup", var |-> EmptyTable, env |-> EmptyTable]
    /\ out = NoOut

\* setenv sName sValue in the session.
AssignEnv ==
    \E sName \in LookupNames, sValue \in LookupValues :
        LET r == command_setenv(<<sName, sValue>>, LookupSession)
        IN  /\ src' = [src EXCEPT !.var = r.var, !.env = r.env]
            /\ out' = NoOut
            /\ UNCHANGED sessVars

\* setvar sName sValue in the session.
AssignVar ==
    \E sName \in LookupNames, sValue \in LookupValues :
        LET r == command_setvar(<<sName, sValue>>, LookupSession)
        IN  /\ src' = [src EXCEPT !.var = r.var, !.env = r.env]
            /\ out' = NoOut
            /\ UNCHANGED sessVars

\* What is kept of the session es in which the program ends.
LookupOut(sName, sForm, es) ==
    [kind |-> "lookup", name |-> sName, form |-> sForm,
     text |-> es.streams[1], status |-> es.status]

\* shell::run of a program that echoes the variable sName.
Lookup ==
    \E sName \in LookupNames, sForm \in LookupForms :
        /\ out = NoOut
        /\ out' = LookupOut(sName, sForm,
                             evaluate(parse(LookupSource(sName, sForm)).node, LookupSession))
        /\ UNCHANGED <<sessVars, src>>

LookupNext ==
    \/ AssignEnv
    \/ AssignVar
    \/ Lookup

SpecLookup == InitLookup /\ [][LookupNext]_vars

\* C21: after any assignments to environment and local variables, $name and
\* ${name} expand to the value of the local variable name if there is one,
\* else to the value of the environment variable name if there is one, else to
\* the empty string: echo writes that value and a newline.
C21_LocalsFirst ==
    out.kind = "lookup" =>
        out.text = (IF out.name \in DOMAIN src.var THEN src.var[out.name]
                    ELSE IF out.name \in DOMAIN src.env THEN src.env[out.name]
                    ELSE << >>) \o <<"\n">>

\* The braced form of a variable set in the environment to one value and as
\* a local to another has expanded to the local value.
C21_Witness ==
    /\ out.kind = "lookup"
    /\ out.form = "${name}"
    /\ out.name \in DOMAIN src.var /\ out.name \in DOMAIN src.env
    /\ src.var[out.name] = <<"a">> /\ src.env[out.name] = <<"b">>
    /\ out.text = <<"a", "\n">>

\* ---------------------------------------------------------------------------
\* The depth counter of a session and the eval invocations in progress on it.

\* The eval invocations in progress on the session made by frame i.
EvalsOn(i) == {k \in 1..Len(stack) : stack[k].kind = "eval" /\ stack[k].sessRef = i}

\* C24: the depth counter of every session equals the number of eval
\* invocations in progress on it, whichever way the earlier invocations ended:
\* with no eval in progress the counter is 0.
C24_DepthRestored ==
    \A i \in 1..Len(stack) :
        stack[i].sessRef = i => stack[i].depth = Cardinality(EvalsOn(i))

\* ---------------------------------------------------------------------------
\* The trees the function table points into.

\* Event i is something undefined that the evaluation did.
Did(i, sWhat) == Trace[i] = [ev |-> "undefined", what |-> sWhat]

\* C22: fcall never evaluates a body of a tree that was destroyed, and when a
\* run has returned no entry of the function table of the session points into
\* a destroyed tree.
C22_BodiesAlive ==
    out.kind = "run" =>
        /\ \A i \in 1..Len(Trace) : ~Did(i, "body of a destroyed tree")
        /\ \A sName \in DOMAIN out.owner : out.owner[sName] \notin out.dead

\* ---------------------------------------------------------------------------
\* The status a command that is not found leaves.

\* Event i is a command run by the session of the run itself: in no pipe, no
\* function call, no loop.
AtTopLevel(i) ==
    /\ Trace[i].ev = "cmd"
    /\ Trace[i].pipes = << >> /\ Trace[i].calls = << >> /\ Trace[i].loops = << >>

\* C23: when the last command of a run is not found, the run returns
\* SHELL_ERROR_COMMAND_NOT_FOUND and that is the last status of the session.
C23_NotFoundIsLastStatus ==
    (/\ out.kind = "run" /\ ~out.cut /\ out.thrown = NoSignal
     /\ Trace # << >>
     /\ AtTopLevel(Len(Trace)) /\ NotFound(Len(Trace)))
    => /\ out.status = "SHELL_ERROR_COMMAND_NOT_FOUND"
       /\ out.last = "SHELL_ERROR_COMMAND_NOT_FOUND"

\* ---------------------------------------------------------------------------
\* A command expression that expands to no token.

\* C27: the evaluation of a command never reads the first of no tokens.
C27_NoTokenNoRead ==
    out.kind = "run" => \A i \in 1..Len(Trace) : ~Did(i, "vTokens[0] of an empty vector")

\* ---------------------------------------------------------------------------
\* The status of a subshell.

\* C28: a subshell returns the last status of the session its last child was
\* evaluated in, and that is the last status of the parent after it.
C28_SubshellStatus ==
    out.kind = "run" =>
        \A i \in 1..Len(Trace) : Trace[i].ev = "subshell" =>
            /\ Trace[i].returned = Trace[i].inside
            /\ Trace[i].last = Trace[i].inside

\* ---------------------------------------------------------------------------
\* A command whose run throws the exception of the parser.

\* C29: when the run of a command throws a syntax error, the error is
\* reported and the status of the command and the last status of the session
\* are the status of the error.
C29_SyntaxErrorIsStatus ==
    out.kind = "run" =>
        \A i \in 1..Len(Trace) : Trace[i].ev = "msg_error_syntax_error" =>
            /\ Trace[i].returned = Trace[i].status
            /\ Trace[i].last = Trace[i].status

\* ---------------------------------------------------------------------------
\* shell_node_operator::make on operands that are commands or trees of
\* operators.

Operator(nType, pLeft, pRight) == [type |-> nType, m_pLeft |-> pLeft, m_pRight |-> pRight]

\* The largest number of operators in an operand.
MaxOperators == 2

\* The trees of at most MaxOperators operators over the commands vLeaves, in
\* that order.
OperandsOver(vLeaves) ==
    LET c1 == Command(<<Word(vLeaves[1])>>)
        c2 == Command(<<Word(vLeaves[2])>>)
        c3 == Command(<<Word(vLeaves[3])>>)
        One == {Operator(t, c1, c2) : t \in Operators}
    IN  {c1} \cup One
        \cup (IF MaxOperators < 2 THEN {}
              ELSE {Operator(t, o, c3) : t \in Operators, o \in One}
                   \cup {Operator(t, c1, Operator(u, c2, c3)) : t \in Operators, u \in Operators})

InitMake ==
    /\ stack = <<RootFrame>>
    /\ event = NoEvent
    /\ src \in {[kind |-> "make", nType |-> t, pLeft |-> l, pRight |-> r] :
                    t \in Operators,
                    l \in OperandsOver(<<"a", "b", "c">>),
                    r \in OperandsOver(<<"d", "e", "f">>)}
    /\ out = NoOut

\* shell_node_operator::make(nType, nPos, pLeft, pRight).
Make ==
    /\ src.kind = "make"
    /\ out = NoOut
    /\ out' = [kind |-> "make", node |-> make(src.nType, src.pLeft, src.pRight)]
    /\ UNCHANGED <<sessVars, src>>

MakeNext == Make

SpecMake == InitMake /\ [][MakeNext]_vars

\* The commands of a tree of operators, from left to right.
RECURSIVE LeavesOf(_)
LeavesOf(pNode) ==
    IF pNode = NullNode THEN << >>
    ELSE IF pNode.type \in Operators THEN LeavesOf(pNode.m_pLeft) \o LeavesOf(pNode.m_pRight)
    ELSE <<pNode>>

\* The operators of a tree, from left to right.
RECURSIVE OperatorsOf(_)
OperatorsOf(pNode) ==
    IF pNode = NullNode \/ pNode.type \notin Operators THEN << >>
    ELSE OperatorsOf(pNode.m_pLeft) \o <<pNode.type>> \o OperatorsOf(pNode.m_pRight)

\* An operator of the tree has a null child.
RECURSIVE HasNullOperand(_)
HasNullOperand(pNode) ==
    /\ pNode # NullNode
    /\ pNode.type \in Operators
    /\ \/ pNode.m_pLeft = NullNode \/ pNode.m_pRight = NullNode
       \/ HasNullOperand(pNode.m_pLeft) \/ HasNullOperand(pNode.m_pRight)

\* C25: the tree make returns holds the new operator, the operators and the
\* commands of the left operand and those of the right operand, the commands
\* from left to right being those of the left operand followed by those of the
\* right operand, and none of its operators has a null child.
C25_MakeKeepsOperands ==
    out.kind = "make" =>
        /\ LeavesOf(out.node) = LeavesOf(src.pLeft) \o LeavesOf(src.pRight)
        /\ OperatorsOf(out.node) =
               OperatorsOf(src.pLeft) \o <<src.nType>> \o OperatorsOf(src.pRight)
        /\ ~HasNullOperand(out.node)

(***************************************************************************)
(* break and continue behind an operator in a loop body.                   *)
(***************************************************************************)
\* The right operand of the operator that is the only statement of the body
\* of the loop pNode.
BodyRight(pNode) == pNode.m_pIterative.m_vSubCommands[1].m_pRight

\* C26: in a loop body, a break or a continue that is the right operand of
\* && or || and is followed by a separator is accepted, and parses to the
\* same operand, whatever the left operand begins with: a plain word, a
\* test, a parenthesis, a brace, a quote or a dollar.
C26_SignalBehindAnyLeft ==
    \A h \in LoopHeads, l \in LoopLefts, o \in LoopOpers, s \in LoopSignals :
        (out.kind = "parse" /\ src.text = LoopSource(h, l, o, s)) =>
            /\ out.err = NoError
            /\ BodyRight(out.node) = BodyRight(parse(LoopSource(h, <<"a">>, o, s)).node)

\* The loops with a plain word before the operator are accepted, and the
\* signal is the right operand.
C26_PlainWordAccepted ==
    \A h \in LoopHeads, o \in LoopOpers, s \in LoopSignals :
        (out.kind = "parse" /\ src.text = LoopSource(h, <<"a">>, o, s)) =>
            /\ out.err = NoError
            /\ BodyRight(out.node).type = "SNT_COMMAND_BLOCK"
            /\ BodyRight(out.node).m_vSubCommands
                   = <<[type |-> IF s = <<"break">> THEN "SNT_BREAK" ELSE "SNT_CONTINUE"]>>

(***************************************************************************)
(* The depth counter and the nesting of the source.                        *)
(***************************************************************************)
\* C30: the depth counter of a parse equals the number of guarded constructs
\* open around the cursor, each subshell, $(...), brace block, if, for, while
\* or until adding one and the else branch of an if adding none: the highest
\* value it takes on a source that parses is the nesting of the source, and a
\* tokenized source nesting at most MAX_DEPTH constructs is never rejected
\* for depth.
C30_DepthCountsNesting ==
    out.kind = "nest" =>
        /\ out.err = NoError => out.maxDepth = OpenGuarded(src.vKinds)
        /\ (out.tokErr = NoError /\ OpenGuarded(src.vKinds) <= SHELL_MAX_DEPTH)
               => out.err # MaxDepthReached

\* Parentheses, dollar parentheses and braces add one each.
C30_BracketsAddOne ==
    (out.kind = "nest" /\ out.err = NoError
        /\ \A i \in 1..Len(src.vKinds) : src.vKinds[i] \in {"paren", "dollar", "brace"})
        => out.maxDepth = Len(src.vKinds)

(***************************************************************************)
(* What shell::run lets through to its caller.                             *)
(***************************************************************************)
\* C1: shell::run never lets an exception of the tokenizer or of the parser
\* escape to its caller: it returns with a status, and when the source does
\* not parse the error is reported through msg_error_syntax_error and the
\* status returned is the status of the error.
C1_RunReturnsStatus ==
    (out.kind = "run" /\ src.kind = "program") =>
        /\ out.thrown \notin SyntaxStatuses
        /\ parse(src.text).err \in SyntaxStatuses =>
               /\ out.status = parse(src.text).err
               /\ \E i \in 1..Len(out.trace) :
                      /\ out.trace[i].ev = "msg_error_syntax_error"
                      /\ out.trace[i].status = parse(src.text).err

\* The programs that parse return: no exception of the parser leaves run.
C1_ParsedRunReturns ==
    (out.kind = "run" /\ src.kind = "program" /\ parse(src.text).err = NoError) =>
        out.thrown \notin SyntaxStatuses

(***************************************************************************)
(* The grouping of a chain of operators.                                   *)
(***************************************************************************)
RECURSIVE Grouping(_)
\* The grouping of a tree: the operators and the words of the commands, the
\* command blocks of one statement left out.
Grouping(pNode) ==
    CASE pNode.type \in Operators ->
            <<pNode.type, Grouping(pNode.m_pLeft), Grouping(pNode.m_pRight)>>
      [] pNode.type = "SNT_COMMAND_BLOCK" /\ Len(pNode.m_vSubCommands) = 1 ->
            Grouping(pNode.m_vSubCommands[1])
      [] pNode.type = "SNT_COMMAND" -> pNode.m_pCommand.m_vChildren[1].m_sText
      [] OTHER -> pNode.type

\* The place at which a precedence-climbing parser splits the operators
\* vOpers: the last of those of the lowest priority.
SplitAt(vOpers) ==
    CHOOSE k \in 1..Len(vOpers) :
        /\ \A i \in 1..Len(vOpers) :
               get_priority([type |-> vOpers[k]]) <= get_priority([type |-> vOpers[i]])
        /\ \A i \in (k + 1)..Len(vOpers) :
               get_priority([type |-> vOpers[k]]) < get_priority([type |-> vOpers[i]])

RECURSIVE Climb(_, _)
\* The grouping a precedence-climbing parser gives the chain of the operators
\* vOpers over the leaves from the nFirst-th on, equal priorities grouping
\* to the left.
Climb(vOpers, nFirst) ==
    IF vOpers = << >> THEN <<ChainLeaves[nFirst]>>
    ELSE LET k == SplitAt(vOpers)
         IN  <<vOpers[k], Climb(SubSeq(vOpers, 1, k - 1), nFirst),
               Climb(SubSeq(vOpers, k + 1, Len(vOpers)), nFirst + k)>>

\* C2: the tree of a command group of commands joined by |, && and || is the
\* tree of a precedence-climbing parser with the priorities pipe > and > or,
\* equal priorities grouping to the left.
C2_PrecedenceClimbing ==
    \A v \in Chains :
        (out.kind = "parse" /\ src.text = ChainSource(v)) =>
            /\ out.err = NoError
            /\ Grouping(out.node) = Climb(v, 1)

\* The chains whose operators rise in priority from left to right group as
\* the precedence-climbing parser groups them.
C2_RisingChains ==
    \A v \in Chains :
        (/\ out.kind = "parse" /\ src.text = ChainSource(v)
         /\ \A i \in 1..(Len(v) - 1) :
                get_priority([type |-> v[i]]) < get_priority([type |-> v[i + 1]])) =>
            /\ out.err = NoError
            /\ Grouping(out.node) = Climb(v, 1)

(***************************************************************************)
(* Where break and continue are accepted.                                  *)
(***************************************************************************)
RECURSIVE HasType(_, _)
\* The tree pNode has a node of the type sType.
HasType(pNode, sType) ==
    \/ pNode.type = sType
    \/ \E i \in 1..Len(Children(pNode)) : HasType(Children(pNode)[i], sType)

SignalType(vSignal) == IF vSignal = <<"break">> THEN "SNT_BREAK" ELSE "SNT_CONTINUE"

\* The keyword stands directly in a loop body and is followed, after optional
\* spaces, by the end, a separator, && or ||.
LegalSignal(sPlace, sFollower) ==
    /\ sPlace \in {"loop", "oper"}
    /\ sFollower \in {"end", "space", "and", "or", "tight and"}

\* C3: a source with a break or a continue is accepted only when the keyword
\* stands directly in a loop body and is followed, after optional spaces, by
\* the end of the input, a separator, && or ||, and the keyword is then the
\* break or continue of the tree; every other occurrence fails the parse.
C3_SignalOnlyInLoopBody ==
    \A p \in SignalPlaces, s \in LoopSignals, f \in SignalFollowers :
        (out.kind = "parse" /\ src.text = SignalSource(p, s, f) /\ out.err = NoError) =>
            /\ LegalSignal(p, f)
            /\ HasType(out.node, SignalType(s))

\* No tree has a break or a continue outside the body of a loop or in a
\* construct nested in the body.
C3_SignalNodeOnlyInLoopBody ==
    \A p \in SignalPlaces, s \in LoopSignals, f \in SignalFollowers :
        (/\ out.kind = "parse" /\ src.text = SignalSource(p, s, f) /\ out.err = NoError
         /\ HasType(out.node, SignalType(s))) =>
            LegalSignal(p, f)
====
